---------------------------- MODULE Spec2Model ----------------------------
(***************************************************************************)
(* Model of the sketch subsystem of truck-playground: the curve            *)
(* primitives, Loop2D, SketchBuilder, Plane and the Loop2D -> Wire         *)
(* construction of src/src/sketch.                                         *)
(*                                                                         *)
(* Numbers.  The source computes in f64.  The model computes exactly on a  *)
(* lattice:                                                                *)
(*  - a length is an integer number of grid units of 2.5e-10, so that      *)
(*    POINT_TOLERANCE (1e-9) is 4 units and HEAL_TOLERANCE (1e-6) is 4000; *)
(*    DEGENERATE_TOLERANCE (1e-12) lies strictly between 0 and 1 unit;     *)
(*  - a distance between two arbitrary points is carried as its square     *)
(*    (Mag2); d > tol is decided as d^2 > tol^2;                           *)
(*  - an angle is an integer number of steps, 12 steps to the full turn:   *)
(*    step k is the direction of the k-th lattice point of the circle of   *)
(*    radius 5, (5,0) (4,3) (3,4) (0,5) (-3,4) ...  The steps 0 3 6 9 are  *)
(*    the quarter turns; cos and sin of every step are exact fifths.  The  *)
(*    encoding keeps order, negation and the addition of quarter turns.    *)
(*    A step is AngleStep = 4 angle units.  f64 is dense near 0 and sparse *)
(*    near 2*pi: the angles f64 holds are, in the model, every whole       *)
(*    number of units below one step and the whole steps from there on,    *)
(*    and a sum is rounded to the nearest of them (FAdd).  One unit stands *)
(*    for an angle such as 1e-20: below ANGLE_TOLERANCE (2 units) and      *)
(*    below half the spacing of f64 at 2*pi.                               *)
(*  - a 3D direction is carried times 5, a 3D position in fifths of a      *)
(*    unit, so that normalised plane directions such as (3/5, 4/5, 0) are  *)
(*    exact.                                                               *)
(***************************************************************************)
EXTENDS Integers, Sequences, FiniteSets, TLC

VARIABLES
    builder,      \* TRUE while a SketchBuilder value is held by the caller
    curves,       \* SketchBuilder.curves
    current_pos,  \* SketchBuilder.current_pos (None or a point)
    start_pos,    \* SketchBuilder.start_pos   (None or a point)
    move_count,   \* number of move_to calls made on the held builder (history)
    loop,         \* the Loop2D value held by the caller, if any
    result,       \* what the last call returned
    kernel,       \* how the geometry kernel of the build evaluates a spline's ends
    made          \* the primitive or plane last constructed on its own, and from what

vars == <<builder, curves, current_pos, start_pos, move_count, loop, result, kernel, made>>

-----------------------------------------------------------------------------
(* Bounds of the model *)

MaxCurves == 2
MaxLoopLen == 2

-----------------------------------------------------------------------------
(* constants.rs, in grid units; std::f64::consts in angle steps *)

POINT_TOLERANCE == 4
ANGLE_TOLERANCE == 2
LENGTH_TOLERANCE == 4
HEAL_TOLERANCE == 4000
DEGENERATE_TOLERANCE == 1
TAU == 48
PI == 24

\* x < 1e-12 and x <= 1e-12 for a non-negative lattice length x (or squared
\* length): 1e-12 is 0.004 unit, so both hold exactly when x is below 1 unit.
BelowDegenerate(x) == x < DEGENERATE_TOLERANCE

\* |a| < 1e-10
BelowAngleTol(a) == (IF a < 0 THEN -a ELSE a) < ANGLE_TOLERANCE

-----------------------------------------------------------------------------
(* Option, Result *)

None == <<>>

NoCurve == [kind |-> "None"]

Ok(v) == [ok |-> TRUE, err |-> "Ok", val |-> v]
Err(e) == [ok |-> FALSE, err |-> e, val |-> NoCurve]

-----------------------------------------------------------------------------
(* Point2 / Vector2 arithmetic (cgmath) *)

Abs(x) == IF x < 0 THEN -x ELSE x
Max(a, b) == IF a >= b THEN a ELSE b
Min(a, b) == IF a <= b THEN a ELSE b

Sub(p, q) == <<p[1] - q[1], p[2] - q[2]>>
Add(p, v) == <<p[1] + v[1], p[2] + v[2]>>
Neg(v) == <<-v[1], -v[2]>>

\* |v|^2
Mag2(v) == v[1] * v[1] + v[2] * v[2]

\* (p - q).magnitude() > tol  and  <= tol, for a tolerance tol >= 0
GapExceeds(p, q, tol) == Mag2(Sub(p, q)) > tol * tol

-----------------------------------------------------------------------------
(* Angles: f64::cos, f64::sin, f64::atan2 on the 12 lattice directions *)

CosTable == <<5, 4, 3, 0, -3, -4, -5, -4, -3, 0, 3, 4>>
SinTable == <<0, 3, 4, 5, 4, 3, 0, -3, -4, -5, -4, -3>>

\* one of the 12 steps, in angle units
Steps == Len(CosTable)
AngleStep == TAU \div Steps

\* the step nearest to the angle a: an angle within a unit of a step gives
\* the step's cos and sin to well below a grid unit of length
NearestStep(a) == (a + AngleStep \div 2) \div AngleStep

\* 5*cos(a), 5*sin(a)
Cos5(a) == CosTable[(NearestStep(a) % Steps) + 1]
Sin5(a) == SinTable[(NearestStep(a) % Steps) + 1]

\* the angles f64 holds, and f64's rounding of an exact sum to the nearest of
\* them (a tie goes to the even one)
Representable(x) == (-AngleStep < x /\ x < AngleStep) \/ x % AngleStep = 0
FRound(x) ==
    IF Representable(x) THEN x
    ELSE LET lo == (x \div AngleStep) * AngleStep
             r == x - lo
         IN  IF 2 * r < AngleStep THEN lo
             ELSE IF 2 * r > AngleStep THEN lo + AngleStep
             ELSE IF (x \div AngleStep) % 2 = 0 THEN lo ELSE lo + AngleStep
FAdd(a, b) == FRound(a + b)

\* v is the zero vector or points in one of the 12 lattice directions
HasAngle(v) ==
    \/ v = <<0, 0>>
    \/ \E a \in {k * AngleStep : k \in 0..(Steps - 1)} :
          /\ v[1] * Sin5(a) = v[2] * Cos5(a)
          /\ v[1] * Cos5(a) + v[2] * Sin5(a) > 0

\* y.atan2(x), in (-PI, PI]; atan2(0, 0) = 0
Atan2(y, x) ==
    IF x = 0 /\ y = 0 THEN 0
    ELSE CHOOSE a \in {k * AngleStep : k \in (1 - Steps \div 2)..(Steps \div 2)} :
            /\ x * Sin5(a) = y * Cos5(a)
            /\ x * Cos5(a) + y * Sin5(a) > 0

\* v.magnitude() of a vector that has a lattice direction
Magnitude(v) == (v[1] * Cos5(Atan2(v[2], v[1])) + v[2] * Sin5(Atan2(v[2], v[1]))) \div 5

\* center + radius * (cos a, sin a)
PointAtAngle(center, radius, a) ==
    <<center[1] + (radius * Cos5(a)) \div 5, center[2] + (radius * Sin5(a)) \div 5>>

\* the point above is on the lattice
OnLattice(radius, a) == (radius * Cos5(a)) % 5 = 0 /\ (radius * Sin5(a)) % 5 = 0

\* Rust's % on integers-as-floats: the remainder has the dividend's sign
Rem(x, m) == IF x >= 0 THEN x % m ELSE -((-x) % m)

normalize_angle(angle) ==
    LET a == Rem(angle, TAU)
    IN  IF a < 0 THEN FAdd(a, TAU) ELSE a

\* The sum or difference of the angles a and b is again a lattice angle, and
\* the integer sum or difference is its step: one of them is a whole number
\* of quarter turns, or (for a difference) they differ by quarter turns.
QuarterTurn == TAU \div 4
AngleSumExact(a, b) == a % QuarterTurn = 0 \/ b % QuarterTurn = 0
AngleDiffExact(a, b) == AngleSumExact(a, b) \/ (a - b) % QuarterTurn = 0

-----------------------------------------------------------------------------
(* primitives/line2d.rs *)

Line2D_new_unchecked(start, end) == [kind |-> "Line", start |-> start, end |-> end]

\* length() = (end - start).magnitude(), as its square
Line2D_length2(line) == Mag2(Sub(line.end, line.start))

\* the default SketchCurve2D::is_degenerate: length() < tol
Line2D_is_degenerate(line) == BelowDegenerate(Line2D_length2(line))

Line2D_new(start, end) ==
    LET line == [kind |-> "Line", start |-> start, end |-> end]
    IN  IF Line2D_is_degenerate(line) THEN Err("DegenerateCurve") ELSE Ok(line)

\* Line2D::set_end
Line2D_set_end(line, p) == [line EXCEPT !.end = p]

Line2D_set_start(line, p) == [line EXCEPT !.start = p]

Line2D_reversed(line) == [kind |-> "Line", start |-> line.end, end |-> line.start]

-----------------------------------------------------------------------------
(* primitives/arc2d.rs *)

\* sweep_angle.clamp(-TAU, TAU)
Clamp(x, lo, hi) == IF x < lo THEN lo ELSE IF x > hi THEN hi ELSE x

Arc2D_new(center, radius, start_angle, sweep_angle) ==
    IF BelowDegenerate(radius) THEN Err("InvalidArcRadius")
    ELSE IF BelowAngleTol(sweep_angle) THEN Err("ZeroSweepAngle")
    ELSE Ok([kind |-> "Arc", center |-> center, radius |-> radius,
             start_angle |-> normalize_angle(start_angle),
             sweep_angle |-> Clamp(sweep_angle, -TAU, TAU)])

RECURSIVE AddTurns(_)
AddTurns(sweep) == IF sweep <= 0 THEN AddTurns(FAdd(sweep, TAU)) ELSE sweep

RECURSIVE SubTurns(_)
SubTurns(sweep) == IF sweep >= 0 THEN SubTurns(FAdd(sweep, -TAU)) ELSE sweep

\* end - start as it is, no turn added or taken
compute_sweep_angle_plain(start, end, ccw) == FAdd(end, -start)

compute_sweep_angle(start, end, ccw) ==
    IF ccw THEN AddTurns(FAdd(end, -start)) ELSE SubTurns(FAdd(end, -start))

compute_sweep_ccw(start, mid, end) ==
    LET s == normalize_angle(start)
        e == normalize_angle(end)
    IN  IF e >= s THEN FAdd(e, -s) ELSE FAdd(FAdd(e, -s), TAU)

compute_sweep_through_mid(start, mid, end) ==
    LET s == normalize_angle(start)
        m == normalize_angle(mid)
        e == normalize_angle(end)
        s_to_m_ccw == IF m >= s THEN FAdd(m, -s) ELSE FAdd(FAdd(m, -s), TAU)
        s_to_e_ccw == IF e >= s THEN FAdd(e, -s) ELSE FAdd(FAdd(e, -s), TAU)
    IN  IF s_to_m_ccw < s_to_e_ccw THEN s_to_e_ccw ELSE FAdd(s_to_e_ccw, -TAU)

\* The inputs from_start_end_center can be computed on exactly: both radii
\* have a lattice direction and their mean is a whole number of units.
ArcInputsExact(start, end, center) ==
    /\ HasAngle(Sub(start, center))
    /\ HasAngle(Sub(end, center))
    /\ (Magnitude(Sub(start, center)) + Magnitude(Sub(end, center))) % 2 = 0
    /\ AngleDiffExact(Atan2(end[2] - center[2], end[1] - center[1]),
                      Atan2(start[2] - center[2], start[1] - center[1]))

\* LENGTH_TOLERANCE * r1.max(r2).max(1.0): every radius of the model is far
\* below 1.0 (4e9 units), so the factor is 1.0.
Arc2D_from_start_end_center(start, end, center, ccw) ==
    LET r1 == Magnitude(Sub(start, center))
        r2 == Magnitude(Sub(end, center))
        radius == (r1 + r2) \div 2
        start_angle == Atan2(start[2] - center[2], start[1] - center[1])
        end_angle == Atan2(end[2] - center[2], end[1] - center[1])
        sweep_angle == compute_sweep_angle(start_angle, end_angle, ccw)
    IN  IF Abs(r1 - r2) > LENGTH_TOLERANCE THEN Err("ArcRadiusMismatch")
        ELSE IF BelowDegenerate(radius) THEN Err("InvalidArcRadius")
        ELSE Arc2D_new(center, radius, start_angle, sweep_angle)

\* d.abs() < DEGENERATE_TOLERANCE compares an area with 1e-12: in square
\* units of (2.5e-10)^2 the threshold is 1e-12 / 6.25e-20.
DEGENERATE_AREA == 16000000

\* The three points' common grid: circumcenter is homogeneous, so it is
\* computed on the points divided by their common grid and scaled back,
\* which keeps the cubic terms within the checker's integers.
CommonGrid(p1, p2, p3) ==
    IF \A p \in {p1, p2, p3} : p[1] % 2000 = 0 /\ p[2] % 2000 = 0 THEN 2000 ELSE 1

CircumDet(p1, p2, p3) ==
    2 * (p1[1] * (p2[2] - p3[2]) + p2[1] * (p3[2] - p1[2]) + p3[1] * (p1[2] - p2[2]))

CircumNumX(p1, p2, p3) ==
    Mag2(p1) * (p2[2] - p3[2]) + Mag2(p2) * (p3[2] - p1[2]) + Mag2(p3) * (p1[2] - p2[2])

CircumNumY(p1, p2, p3) ==
    Mag2(p1) * (p3[1] - p2[1]) + Mag2(p2) * (p1[1] - p3[1]) + Mag2(p3) * (p2[1] - p1[1])

Scaled(p, g) == <<p[1] \div g, p[2] \div g>>

\* |d| < DEGENERATE_TOLERANCE, with d = g*g*d' for the scaled determinant d'
CircumCollinear(p1, p2, p3) ==
    LET g == CommonGrid(p1, p2, p3)
        d == CircumDet(Scaled(p1, g), Scaled(p2, g), Scaled(p3, g))
    IN  Abs(d) * g * g < DEGENERATE_AREA

\* The inputs circumcenter can be computed on exactly: coordinates small
\* enough (or on the coarse grid) and a centre on the lattice.
CircumInputsExact(p1, p2, p3) ==
    LET g == CommonGrid(p1, p2, p3)
        q1 == Scaled(p1, g)
        q2 == Scaled(p2, g)
        q3 == Scaled(p3, g)
        d == CircumDet(q1, q2, q3)
    IN  /\ \A q \in {q1, q2, q3} : Abs(q[1]) <= 100 /\ Abs(q[2]) <= 100
        /\ IF CircumCollinear(p1, p2, p3) THEN TRUE
           ELSE /\ CircumNumX(q1, q2, q3) % Abs(d) = 0
                /\ CircumNumY(q1, q2, q3) % Abs(d) = 0

\* n / d for a multiple n of d, d # 0
ExactDiv(n, d) == IF d > 0 THEN n \div d ELSE (-n) \div (-d)

circumcenter(p1, p2, p3) ==
    LET g == CommonGrid(p1, p2, p3)
        q1 == Scaled(p1, g)
        q2 == Scaled(p2, g)
        q3 == Scaled(p3, g)
        d == CircumDet(q1, q2, q3)
    IN  IF CircumCollinear(p1, p2, p3) THEN Err("CollinearPoints")
        ELSE Ok(<<g * ExactDiv(CircumNumX(q1, q2, q3), d),
                  g * ExactDiv(CircumNumY(q1, q2, q3), d)>>)

Arc2D_from_three_points(start, mid, end) ==
    LET c == circumcenter(start, mid, end)
    IN  IF ~c.ok THEN Err(c.err)
        ELSE LET center == c.val
                 radius == Magnitude(Sub(start, center))
                 start_angle == Atan2(start[2] - center[2], start[1] - center[1])
                 mid_angle == Atan2(mid[2] - center[2], mid[1] - center[1])
                 end_angle == Atan2(end[2] - center[2], end[1] - center[1])
                 sweep_angle == compute_sweep_through_mid(start_angle, mid_angle, end_angle)
             IN  Arc2D_new(center, radius, start_angle, sweep_angle)

\* the three points have lattice directions from the computed centre
ThreePointInputsExact(start, mid, end) ==
    /\ CircumInputsExact(start, mid, end)
    /\ LET c == circumcenter(start, mid, end)
       IN  IF ~c.ok THEN TRUE ELSE
             /\ \A p \in {start, mid, end} : HasAngle(Sub(p, c.val))
             /\ \A p \in {mid, end} :
                   AngleDiffExact(Atan2(p[2] - c.val[2], p[1] - c.val[1]),
                                  Atan2(start[2] - c.val[2], start[1] - c.val[1]))

-----------------------------------------------------------------------------
(* circumcenter far from the origin.  A lattice point has coordinates of   *)
(* about 13 bits, and f64, with its 53 bits, multiplies and adds them      *)
(* exactly: the definitions above compute on them exactly.  A point about  *)
(* 100 from the origin given to a millionth has coordinates of 27 bits and *)
(* more; their products have more than 53 bits and f64 rounds them.  Such  *)
(* a far point is g * q with g = FarGrid lattice units and q a pair of     *)
(* whole numbers below 2^28; the determinant is computed on q as f64       *)
(* computes it (scaling by g, taken as a power of two, commutes with the   *)
(* rounding), in whole numbers of up to 57 bits held as two limbs.         *)

HalfLimb == 2^14
Limb == 2^28
MantissaBits == 53
FarGrid == 2^12

\* the whole number sign * (hi * 2^28 + lo)
Big(neg, hi, lo) == [neg |-> neg /\ (hi > 0 \/ lo > 0), hi |-> hi, lo |-> lo]
BigOf(n) == Big(n < 0, Abs(n) \div Limb, Abs(n) % Limb)
BigNeg(x) == Big(~x.neg, x.hi, x.lo)
BigIsZero(x) == x.hi = 0 /\ x.lo = 0

\* a * b exactly, for |a|, |b| < 2^28
BigMul(a, b) ==
    LET a1 == Abs(a) \div HalfLimb
        a0 == Abs(a) % HalfLimb
        b1 == Abs(b) \div HalfLimb
        b0 == Abs(b) % HalfLimb
        mid == a1 * b0 + a0 * b1
        low == (mid % HalfLimb) * HalfLimb + a0 * b0
    IN  Big((a < 0) # (b < 0), a1 * b1 + mid \div HalfLimb + low \div Limb, low % Limb)

\* |x| < |y|
BigMagLess(x, y) == x.hi < y.hi \/ (x.hi = y.hi /\ x.lo < y.lo)

\* |x| - |y| with the sign neg, for |x| >= |y|
BigMagSub(neg, x, y) ==
    IF x.lo >= y.lo THEN Big(neg, x.hi - y.hi, x.lo - y.lo)
    ELSE Big(neg, x.hi - y.hi - 1, x.lo + Limb - y.lo)

\* x + y exactly
BigAdd(x, y) ==
    IF x.neg = y.neg
    THEN Big(x.neg, x.hi + y.hi + (x.lo + y.lo) \div Limb, (x.lo + y.lo) % Limb)
    ELSE IF BigMagLess(x, y) THEN BigMagSub(y.neg, y, x)
    ELSE BigMagSub(x.neg, x, y)

\* the number of bits of n >= 0
BitLen(n) == CHOOSE k \in 0..31 : (k = 0 \/ n >= 2^(k - 1)) /\ (k = 31 \/ n < 2^k)

\* x rounded to the nearest number of 53 bits, a tie to the even one: what
\* f64 keeps of an exact sum or product
F64Round(x) ==
    LET drop == 28 + BitLen(x.hi) - MantissaBits
    IN  IF drop <= 0 THEN x
        ELSE LET ulp == 2^drop
                 r == x.lo % ulp
                 q == x.lo \div ulp
                 up == IF 2 * r > ulp \/ (2 * r = ulp /\ q % 2 = 1) THEN 1 ELSE 0
                 low == (q + up) * ulp
             IN  Big(x.neg, x.hi + low \div Limb, low % Limb)

F64Mul(a, b) == F64Round(BigMul(a, b))
F64Add(x, y) == F64Round(BigAdd(x, y))

-----------------------------------------------------------------------------
(* f64 on values of any exponent.  Loop2D::is_ccw samples a line at        *)
(* t = i / 10, which f64 rounds, and multiplies and adds what it gets.     *)
(* A natural number of any size is the sequence of its digits to the base  *)
(* Radix, the least first and the last not 0; an f64 is the sign neg and   *)
(* the whole number m times 2^e.                                           *)

Radix == 2^15
DigitBits == BitLen(Radix) - 1

RECURSIVE NatTrim(_)
NatTrim(a) ==
    IF a # <<>> /\ a[Len(a)] = 0 THEN NatTrim(SubSeq(a, 1, Len(a) - 1)) ELSE a

RECURSIVE NatOf(_)
NatOf(n) == IF n = 0 THEN <<>> ELSE <<n % Radix>> \o NatOf(n \div Radix)

NatDigit(a, i) == IF i <= Len(a) THEN a[i] ELSE 0

RECURSIVE NatAddFrom(_, _, _, _)
NatAddFrom(a, b, i, carry) ==
    IF i > Len(a) /\ i > Len(b) THEN (IF carry = 0 THEN <<>> ELSE <<carry>>)
    ELSE LET s == NatDigit(a, i) + NatDigit(b, i) + carry
         IN  <<s % Radix>> \o NatAddFrom(a, b, i + 1, s \div Radix)

NatAdd(a, b) == NatAddFrom(a, b, 1, 0)

RECURSIVE NatSubFrom(_, _, _, _)
NatSubFrom(a, b, i, borrow) ==
    IF i > Len(a) THEN <<>>
    ELSE LET d == NatDigit(a, i) - NatDigit(b, i) - borrow
         IN  <<(d + Radix) % Radix>> \o NatSubFrom(a, b, i + 1, IF d < 0 THEN 1 ELSE 0)

\* a - b, for a >= b
NatSub(a, b) == NatTrim(NatSubFrom(a, b, 1, 0))

RECURSIVE NatLessFrom(_, _, _)
NatLessFrom(a, b, i) ==
    IF i = 0 THEN FALSE
    ELSE IF a[i] # b[i] THEN a[i] < b[i]
    ELSE NatLessFrom(a, b, i - 1)

NatLess(a, b) == IF Len(a) # Len(b) THEN Len(a) < Len(b) ELSE NatLessFrom(a, b, Len(a))

\* a * d, for a digit d
RECURSIVE NatMulDigitFrom(_, _, _, _)
NatMulDigitFrom(a, d, i, carry) ==
    IF i > Len(a) THEN (IF carry = 0 THEN <<>> ELSE <<carry>>)
    ELSE LET p == a[i] * d + carry
         IN  <<p % Radix>> \o NatMulDigitFrom(a, d, i + 1, p \div Radix)

NatMulDigit(a, d) == NatTrim(NatMulDigitFrom(a, d, 1, 0))

RECURSIVE NatMul(_, _)
NatMul(a, b) ==
    IF a = <<>> \/ b = <<>> THEN <<>>
    ELSE NatAdd(NatMulDigit(a, b[1]), NatTrim(<<0>> \o NatMul(a, Tail(b))))

\* a \div d and a % d, for a digit d > 0: from the digit i down
RECURSIVE NatDivDigitFrom(_, _, _, _)
NatDivDigitFrom(a, d, i, rem) ==
    IF i = 0 THEN <<>>
    ELSE LET cur == rem * Radix + a[i]
         IN  Append(NatDivDigitFrom(a, d, i - 1, cur % d), cur \div d)

RECURSIVE NatModDigitFrom(_, _, _, _)
NatModDigitFrom(a, d, i, rem) ==
    IF i = 0 THEN rem ELSE NatModDigitFrom(a, d, i - 1, (rem * Radix + a[i]) % d)

NatDivDigit(a, d) == NatTrim(NatDivDigitFrom(a, d, Len(a), 0))
NatModDigit(a, d) == NatModDigitFrom(a, d, Len(a), 0)

\* a * 2^k and a \div 2^k
NatShl(a, k) ==
    IF a = <<>> THEN <<>>
    ELSE [i \in 1..(k \div DigitBits) |-> 0] \o NatMulDigit(a, 2^(k % DigitBits))

NatShr(a, k) ==
    IF k \div DigitBits >= Len(a) THEN <<>>
    ELSE NatDivDigit(SubSeq(a, k \div DigitBits + 1, Len(a)), 2^(k % DigitBits))

\* the number of bits of a
NatBits(a) == IF a = <<>> THEN 0 ELSE DigitBits * (Len(a) - 1) + BitLen(a[Len(a)])

Fp(neg, m, e) == [neg |-> neg /\ m # <<>>, m |-> m, e |-> IF m = <<>> THEN 0 ELSE e]
FpOf(n) == Fp(n < 0, NatOf(Abs(n)), 0)
FpNeg(x) == Fp(~x.neg, x.m, x.e)

\* m * 2^e rounded to the nearest number of 53 bits, a tie to the even one
FpRound(neg, m, e) ==
    LET drop == NatBits(m) - MantissaBits
    IN  IF drop <= 0 THEN Fp(neg, m, e)
        ELSE LET q == NatShr(m, drop)
                 r == NatSub(m, NatShl(q, drop))
                 half == NatShl(<<1>>, drop - 1)
                 up == NatLess(half, r) \/ (r = half /\ q[1] % 2 = 1)
             IN  Fp(neg, IF up THEN NatAdd(q, <<1>>) ELSE q, e + drop)

\* x + y exactly
FpSum(x, y) ==
    IF x.m = <<>> THEN y
    ELSE IF y.m = <<>> THEN x
    ELSE LET e == Min(x.e, y.e)
             a == NatShl(x.m, x.e - e)
             b == NatShl(y.m, y.e - e)
         IN  IF x.neg = y.neg THEN Fp(x.neg, NatAdd(a, b), e)
             ELSE IF NatLess(a, b) THEN Fp(y.neg, NatSub(b, a), e)
             ELSE Fp(x.neg, NatSub(a, b), e)

\* the f64 operations +, -, * and, on whole numbers n >= 0 and d > 0, /
FpAdd(x, y) == LET s == FpSum(x, y) IN FpRound(s.neg, s.m, s.e)
FpSub(x, y) == FpAdd(x, FpNeg(y))
FpMul(x, y) == FpRound(x.neg # y.neg, NatMul(x.m, y.m), x.e + y.e)
FpDiv(n, d) ==
    LET scaled == NatShl(NatOf(n), 4 * DigitBits)
        q == NatDivDigit(scaled, d)
        sticky == IF NatModDigit(scaled, d) = 0 THEN <<>> ELSE <<1>>
    IN  FpRound(FALSE, NatAdd(NatShl(q, 1), sticky), -(4 * DigitBits) - 1)

\* x < 0.0
FpNegative(x) == x.neg /\ x.m # <<>>

-----------------------------------------------------------------------------

\* Angles next to the negative x axis, where atan2 jumps from PI to -PI.
\* They are whole numbers of 2^-51, the spacing of f64 between 2 and 4:
\* f64's PI is PiF64 of them and f64's TAU twice that (spacing 2^-50).
PiF64 == Big(FALSE, 26353589, 71576856)
TauF64 == BigAdd(PiF64, PiF64)

\* ANGLE_TOLERANCE = 1e-10 is 225179.98 of these units
ANGLE_TOLERANCE_F64 == 225180

\* y.atan2(x) for x = -1.0 and y = m * 2^-51 (m = 0 is +0.0): the angle
\* PI - |y| with the sign of y, rounded to f64
Atan2NearPi(p) == BigAdd(Big(p[2] < 0, PiF64.hi, PiF64.lo), BigOf(-p[2]))

BigPositive(x) == ~x.neg /\ ~BigIsZero(x)
BigNegative(x) == x.neg /\ ~BigIsZero(x)

RECURSIVE AddTurnsF64(_)
AddTurnsF64(sweep) ==
    IF ~BigPositive(sweep) THEN AddTurnsF64(F64Add(sweep, TauF64)) ELSE sweep

RECURSIVE SubTurnsF64(_)
SubTurnsF64(sweep) ==
    IF ~BigNegative(sweep) THEN SubTurnsF64(F64Add(sweep, BigNeg(TauF64))) ELSE sweep

\* compute_sweep_angle on these angles
compute_sweep_angle_f64(start, end, ccw) ==
    IF ccw THEN AddTurnsF64(F64Add(end, BigNeg(start)))
    ELSE SubTurnsF64(F64Add(end, BigNeg(start)))

\* normalize_angle on these angles: angle % TAU is the angle itself
normalize_angle_f64(angle) == IF angle.neg THEN F64Add(angle, TauF64) ELSE angle

\* Arc2D::from_start_end_center about the origin for start and end on the
\* line x = -1.0, 2^-51 apart or less from the x axis: r1 and r2 round to
\* 1.0, and Arc2D::new is given the radius 1.0 and the sweep computed
Arc2D_from_start_end_near_pi(start, end, ccw) ==
    LET start_angle == Atan2NearPi(start)
        end_angle == Atan2NearPi(end)
        sweep_angle == compute_sweep_angle_f64(start_angle, end_angle, ccw)
    IN  IF sweep_angle.hi = 0 /\ sweep_angle.lo < ANGLE_TOLERANCE_F64
        THEN Err("ZeroSweepAngle")
        ELSE Ok([kind |-> "F64Arc", start_angle |-> normalize_angle_f64(start_angle),
                 sweep_angle |-> sweep_angle])

\* Flat triples: start = (x, 0.0), mid = (0.0, m * 2^-51), end = (-x, 0.0)
\* with x = -1.0 or 1.0 and |m| a power of two, on which every step of
\* circumcenter is exact: d = 4 * x * mid.y, the centre is
\* (0, -1 / (2 * mid.y)), and a point (x, 0.0) is seen from it at a quarter
\* turn less x * 2 * mid.y, on the side of mid.
PiHalfF64 == Big(FALSE, 13176794, 170006156)

\* DEGENERATE_TOLERANCE = 1e-12 is 2251.8 units of 2^-51
DEGENERATE_TOLERANCE_F64 == 2252

\* x < y
BigLess(x, y) == BigNegative(BigAdd(x, BigNeg(y)))

\* (p.y - center.y).atan2(p.x - center.x) for p = (x, 0.0) or p = mid
FlatAngle(x, m) ==
    BigAdd(IF m > 0 THEN PiHalfF64 ELSE BigNeg(PiHalfF64), BigOf(-x * 2 * m))

\* compute_sweep_through_mid on these angles
compute_sweep_through_mid_f64(start, mid, end) ==
    LET s == normalize_angle_f64(start)
        m == normalize_angle_f64(mid)
        e == normalize_angle_f64(end)
        s_to_m_ccw == IF ~BigLess(m, s) THEN F64Add(m, BigNeg(s))
                      ELSE F64Add(F64Add(m, BigNeg(s)), TauF64)
        s_to_e_ccw == IF ~BigLess(e, s) THEN F64Add(e, BigNeg(s))
                      ELSE F64Add(F64Add(e, BigNeg(s)), TauF64)
    IN  IF BigLess(s_to_m_ccw, s_to_e_ccw) THEN s_to_e_ccw
        ELSE F64Add(s_to_e_ccw, BigNeg(TauF64))

\* Arc2D::from_three_points on a flat triple
Arc2D_from_flat_points(start, mid, end) ==
    IF 4 * Abs(mid[2]) < DEGENERATE_TOLERANCE_F64 THEN Err("CollinearPoints")
    ELSE LET start_angle == FlatAngle(start[1], mid[2])
             mid_angle == FlatAngle(mid[1], mid[2])
             end_angle == FlatAngle(end[1], mid[2])
             sweep_angle == compute_sweep_through_mid_f64(start_angle, mid_angle, end_angle)
         IN  IF sweep_angle.hi = 0 /\ sweep_angle.lo < ANGLE_TOLERANCE_F64
             THEN Err("ZeroSweepAngle")
             ELSE Ok([kind |-> "F64Arc", start_angle |-> normalize_angle_f64(start_angle),
                      sweep_angle |-> sweep_angle])

\* d = 2.0 * (p1.x * (p2.y - p3.y) + p2.x * (p3.y - p1.y) + p3.x * (p1.y - p2.y))
\* as f64 computes it; the differences and the doubling are exact
F64Det(q1, q2, q3) ==
    LET sum == F64Add(F64Add(F64Mul(q1[1], q2[2] - q3[2]), F64Mul(q2[1], q3[2] - q1[2])),
                      F64Mul(q3[1], q1[2] - q2[2]))
    IN  BigAdd(sum, sum)

\* d.abs() < DEGENERATE_TOLERANCE for the points g * q: |d| * g * g < DEGENERATE_AREA
F64Collinear(g, q1, q2, q3) ==
    LET d == F64Det(q1, q2, q3)
    IN  d.hi = 0 /\ d.lo < (DEGENERATE_AREA + g * g - 1) \div (g * g)

\* the centre the closed form gives for far points that pass the test is
\* the quotient of rounding residues: farther than the lattice reaches
FarCentre == [kind |-> "Far"]

\* circumcenter on the far points g * q
circumcenter_far(g, q1, q2, q3) ==
    IF F64Collinear(g, q1, q2, q3) THEN Err("CollinearPoints")
    ELSE [ok |-> TRUE, err |-> "Ok", val |-> FarCentre]

\* Arc2D::from_three_points on the far points g * q.  From a centre that
\* far the three points lie in directions that agree to within the spacing
\* of f64, and the sweep computed from them is either below ANGLE_TOLERANCE
\* or within that of a full turn: zero_sweep tells which.
Arc2D_from_far_points(g, start, mid, end, zero_sweep) ==
    LET c == circumcenter_far(g, start, mid, end)
    IN  IF ~c.ok THEN Err(c.err)
        ELSE IF zero_sweep THEN Err("ZeroSweepAngle")
        ELSE [ok |-> TRUE, err |-> "Ok", val |-> [kind |-> "FarArc", center |-> c.val]]

Arc2D_start(arc) == PointAtAngle(arc.center, arc.radius, arc.start_angle)
Arc2D_end(arc) ==
    PointAtAngle(arc.center, arc.radius, FAdd(arc.start_angle, arc.sweep_angle))

\* tangent_at(1.0), times 5
Arc2D_tangent_end5(arc) ==
    LET angle == FAdd(arc.start_angle, arc.sweep_angle)
        sign == IF arc.sweep_angle >= 0 THEN 1 ELSE -1
    IN  <<-Sin5(angle) * sign, Cos5(angle) * sign>>

\* Arc2D::reversed negating the sweep where it starts
Arc2D_reversed_in_place(arc) == [arc EXCEPT !.sweep_angle = -arc.sweep_angle]

Arc2D_reversed(arc) ==
    [kind |-> "Arc", center |-> arc.center, radius |-> arc.radius,
     start_angle |-> normalize_angle(FAdd(arc.start_angle, arc.sweep_angle)),
     sweep_angle |-> -arc.sweep_angle]

-----------------------------------------------------------------------------
(* primitives/circle2d.rs *)

\* Circle2D::with_seam without the test of the radius
Circle2D_with_seam_unchecked(center, radius, seam_angle, ccw) ==
    Ok([kind |-> "Circle", center |-> center, radius |-> radius,
        seam_angle |-> seam_angle, ccw |-> ccw])

Circle2D_with_seam(center, radius, seam_angle, ccw) ==
    IF BelowDegenerate(radius) THEN Err("InvalidCircleRadius")
    ELSE Ok([kind |-> "Circle", center |-> center, radius |-> radius,
             seam_angle |-> seam_angle, ccw |-> ccw])

Circle2D_new(center, radius) == Circle2D_with_seam(center, radius, 0, TRUE)

Circle2D_from_center_point(center, point_on_circle) ==
    Circle2D_with_seam(center, Magnitude(Sub(point_on_circle, center)),
                       Atan2(point_on_circle[2] - center[2], point_on_circle[1] - center[1]),
                       TRUE)

Circle2D_from_diameter(p1, p2) ==
    LET center == <<(p1[1] + p2[1]) \div 2, (p1[2] + p2[2]) \div 2>>
        radius == Magnitude(Sub(p1, center))
    IN  IF BelowDegenerate(radius) THEN Err("InvalidCircleRadius")
        ELSE Circle2D_new(center, radius)

\* the centre and the radius of from_diameter are lattice values
DiameterExact(p1, p2) ==
    /\ (p1[1] + p2[1]) % 2 = 0
    /\ (p1[2] + p2[2]) % 2 = 0
    /\ p1[1] = p2[1] \/ p1[2] = p2[2]

Circle2D_point_at_angle(circle, angle) == PointAtAngle(circle.center, circle.radius, angle)
Circle2D_start(circle) == Circle2D_point_at_angle(circle, circle.seam_angle)
Circle2D_end(circle) == Circle2D_start(circle)

Circle2D_reversed(circle) ==
    [kind |-> "Circle", center |-> circle.center, radius |-> circle.radius,
     seam_angle |-> circle.seam_angle, ccw |-> ~circle.ccw]

\* circumcenter_from_three of circle2d.rs
circumcenter_from_three(p1, p2, p3) ==
    LET g == CommonGrid(p1, p2, p3)
        q1 == Scaled(p1, g)
        q2 == Scaled(p2, g)
        q3 == Scaled(p3, g)
        d == 2 * (q1[1] * (q2[2] - q3[2]) + q2[1] * (q3[2] - q1[2]) + q3[1] * (q1[2] - q2[2]))
        p1_sq == q1[1] * q1[1] + q1[2] * q1[2]
        p2_sq == q2[1] * q2[1] + q2[2] * q2[2]
        p3_sq == q3[1] * q3[1] + q3[2] * q3[2]
        ux == p1_sq * (q2[2] - q3[2]) + p2_sq * (q3[2] - q1[2]) + p3_sq * (q1[2] - q2[2])
        uy == p1_sq * (q3[1] - q2[1]) + p2_sq * (q1[1] - q3[1]) + p3_sq * (q2[1] - q1[1])
    IN  IF Abs(d) * g * g < DEGENERATE_AREA THEN Err("CollinearPoints")
        ELSE Ok(<<g * ExactDiv(ux, d), g * ExactDiv(uy, d)>>)

Circle2D_from_three_points(p1, p2, p3) ==
    LET c == circumcenter_from_three(p1, p2, p3)
    IN  IF ~c.ok THEN Err(c.err)
        ELSE Circle2D_new(c.val, Magnitude(Sub(p1, c.val)))

\* circumcenter_from_three on the far points g * q: its determinant test is
\* the same expression, computed by f64 the same way
circumcenter_from_three_far(g, q1, q2, q3) ==
    LET d == F64Det(q1, q2, q3)
    IN  IF d.hi = 0 /\ d.lo < (DEGENERATE_AREA + g * g - 1) \div (g * g)
        THEN Err("CollinearPoints")
        ELSE [ok |-> TRUE, err |-> "Ok", val |-> FarCentre]

\* Circle2D::from_three_points on the far points g * q: the radius, the
\* distance to a centre that far, is above DEGENERATE_TOLERANCE
Circle2D_from_far_points(g, p1, p2, p3) ==
    LET c == circumcenter_from_three_far(g, p1, p2, p3)
    IN  IF ~c.ok THEN Err(c.err)
        ELSE [ok |-> TRUE, err |-> "Ok", val |-> [kind |-> "FarCircle", center |-> c.val]]

\* Circle2D::to_arc: Arc2D::new(..).unwrap()
Circle2D_to_arc(circle) ==
    Arc2D_new(circle.center, circle.radius, circle.seam_angle,
              IF circle.ccw THEN TAU ELSE -TAU)

-----------------------------------------------------------------------------
(* primitives/bspline2d.rs.  The curve itself is the kernel's              *)
(* BSplineCurve<Point2> over KnotVec::uniform_knot(n, degree); start() and *)
(* end() are the kernel's evaluation subs(t0), subs(t1) of it.  The model  *)
(* keeps the control points and the requested degree.  What subs returns   *)
(* at the ends of the range is the kernel's business: with the kernel the  *)
(* build links (the variable kernel) it is the control polygon's end point *)
(* there, or it is not, and then the model takes the origin, the value of  *)
(* a spline whose basis functions all vanish there.                        *)

KernelBuilds == {"ends", "origin"}

\* self.curve.subs(t) at the end of the range next to control point i
KernelSubs(points, i) == IF kernel = "ends" THEN points[i] ELSE <<0, 0>>

\* Err(SketchError::InsufficientControlPoints { min, degree, got })
InsufficientControlPoints(min, degree, got) ==
    [ok |-> FALSE, err |-> "InsufficientControlPoints",
     val |-> [kind |-> "InsufficientControlPoints", min |-> min, degree |-> degree,
              got |-> got]]

BSpline2D_from_control_points(points, degree) ==
    LET n == Len(points)
        min_points == degree + 1
    IN  IF n < min_points THEN InsufficientControlPoints(min_points, degree, n)
        ELSE Ok([kind |-> "BSpline", points |-> points, degree |-> degree])

BSpline2D_interpolate(points, degree) ==
    IF Len(points) < 2 THEN InsufficientControlPoints(2, degree, Len(points))
    ELSE BSpline2D_from_control_points(points, Min(degree, Len(points) - 1))

BSpline2D_start(spline) == KernelSubs(spline.points, 1)
BSpline2D_end(spline) == KernelSubs(spline.points, Len(spline.points))

RECURSIVE Reverse(_)
Reverse(s) == IF s = <<>> THEN <<>> ELSE Append(Reverse(Tail(s)), Head(s))

\* curve.invert(): the same curve run backwards
BSpline2D_reversed(spline) ==
    [kind |-> "BSpline", points |-> Reverse(spline.points), degree |-> spline.degree]

-----------------------------------------------------------------------------
(* primitives/mod.rs: Curve2D, primitives/traits.rs: SketchCurve2D *)

CurveStart(c) ==
    CASE c.kind = "Line" -> c.start
      [] c.kind = "Arc" -> Arc2D_start(c)
      [] c.kind = "Circle" -> Circle2D_start(c)
      [] c.kind = "BSpline" -> BSpline2D_start(c)

CurveEnd(c) ==
    CASE c.kind = "Line" -> c.end
      [] c.kind = "Arc" -> Arc2D_end(c)
      [] c.kind = "Circle" -> Circle2D_end(c)
      [] c.kind = "BSpline" -> BSpline2D_end(c)

\* a healing that moves the end of a line
Curve2D_set_end(c, p) == IF c.kind = "Line" THEN Line2D_set_end(c, p) ELSE c

Curve2D_set_start(c, p) == IF c.kind = "Line" THEN Line2D_set_start(c, p) ELSE c

Curve2D_reversed(c) ==
    CASE c.kind = "Line" -> Line2D_reversed(c)
      [] c.kind = "Arc" -> Arc2D_reversed(c)
      [] c.kind = "Circle" -> Circle2D_reversed(c)
      [] c.kind = "BSpline" -> BSpline2D_reversed(c)

\* (start() - end()).magnitude(), squared
ClosureGap2(c) == Mag2(Sub(CurveStart(c), CurveEnd(c)))

\* SketchCurve2D::is_closed(tol), the default body, which is the one Curve2D
\* has (impl SketchCurve2D for Curve2D does not forward is_closed)
\* length(): of a line squared, as the lattice has the square only; of an
\* arc and of a circle in lattice units times angle units
Line2D_length_squared(line) == Mag2(Sub(line.end, line.start))
Arc2D_length(arc) == arc.radius * Abs(arc.sweep_angle)
Circle2D_length(circle) == TAU * circle.radius
Curve2D_length(c) ==
    CASE c.kind = "Line" -> Line2D_length_squared(c)
      [] c.kind = "Arc" -> Arc2D_length(c)
      [] c.kind = "Circle" -> Circle2D_length(c)

Curve2D_is_closed(c, tol) == ClosureGap2(c) < tol * tol

\* Circle2D's own is_closed
Circle2D_is_closed(circle, tol) == TRUE

\* tangent_at(1.0).normalize(), times 5, of a Line or an Arc
LineTangentExact(c) == HasAngle(Sub(c.end, c.start))
Line2D_unit_tangent5(c) ==
    LET a == Atan2(c.end[2] - c.start[2], c.end[1] - c.start[1])
    IN  <<Cos5(a), Sin5(a)>>

-----------------------------------------------------------------------------
(* loop2d.rs *)

NoLoop == [live |-> FALSE, curves |-> <<>>]
Loop2D(cs) == [live |-> TRUE, curves |-> cs]

\* the junction after curve i (0-based): end of curve i, start of curve (i+1) % n
JunctionGap2(cs, i) ==
    Mag2(Sub(CurveEnd(cs[i + 1]), CurveStart(cs[((i + 1) % Len(cs)) + 1])))

ValidOk == [status |-> "Ok", index |-> 0, gap2 |-> 0]
OpenLoop(i, g2) == [status |-> "OpenLoop", index |-> i, gap2 |-> g2]

\* the walk reporting the junction by the index of its successor curve
RECURSIVE ValidateFrom_successor(_, _, _)
ValidateFrom_successor(cs, tol, i) ==
    IF i >= Len(cs) THEN ValidOk
    ELSE IF JunctionGap2(cs, i) > tol * tol
         THEN OpenLoop((i + 1) % Len(cs), JunctionGap2(cs, i))
    ELSE ValidateFrom_successor(cs, tol, i + 1)

\* for i in 0..n { ... if gap > tol { return Err(OpenLoop { index: i, gap }) } }
RECURSIVE ValidateFrom(_, _, _)
ValidateFrom(cs, tol, i) ==
    IF i >= Len(cs) THEN ValidOk
    ELSE IF JunctionGap2(cs, i) > tol * tol THEN OpenLoop(i, JunctionGap2(cs, i))
    ELSE ValidateFrom(cs, tol, i + 1)

Loop2D_validate(cs, tol) ==
    IF cs = <<>> THEN [status |-> "EmptyLoop", index |-> 0, gap2 |-> 0]
    ELSE IF Len(cs) = 1
         THEN IF ClosureGap2(cs[1]) > tol * tol
              THEN OpenLoop(0, ClosureGap2(cs[1]))
              ELSE ValidOk
    ELSE ValidateFrom(cs, tol, 0)

\* Loop2D::new validating with POINT_TOLERANCE
Loop2D_new_strict(cs) == Loop2D_validate(cs, POINT_TOLERANCE)

\* Loop2D::new: the validation result, and the loop when it is Ok
Loop2D_new(cs) == Loop2D_validate(cs, HEAL_TOLERANCE)

Loop2D_from_closed_curve(c) ==
    IF ~Curve2D_is_closed(c, POINT_TOLERANCE)
    THEN OpenLoop(0, Mag2(Sub(CurveEnd(c), CurveStart(c))))
    ELSE ValidOk

\* Shapes::circle: the status, and the curves of the loop when it is Ok
Shapes_circle(center, radius) ==
    LET circle == Circle2D_new(center, radius)
    IN  IF ~circle.ok THEN [status |-> circle.err, curves |-> <<>>]
        ELSE [status |-> Loop2D_from_closed_curve(circle.val).status,
              curves |-> <<circle.val>>]

\* Shapes::rectangle: move_to(corner), horizontal(width), vertical(height),
\* horizontal(-width) and close(); the status, and the curves of the loop
\* when it is Ok
Shapes_rectangle(corner, width, height) ==
    LET p1 == <<corner[1] + width, corner[2]>>
        p2 == <<p1[1], p1[2] + height>>
        p3 == <<p2[1] - width, p2[2]>>
        l1 == Line2D_new(corner, p1)
        l2 == Line2D_new(p1, p2)
        l3 == Line2D_new(p2, p3)
        drawn == <<l1.val, l2.val, l3.val>>
        closed == IF GapExceeds(p3, corner, POINT_TOLERANCE)
                  THEN Append(drawn, Line2D_new_unchecked(p3, corner))
                  ELSE drawn
    IN  IF ~l1.ok THEN [status |-> l1.err, curves |-> <<>>]
        ELSE IF ~l2.ok THEN [status |-> l2.err, curves |-> <<>>]
        ELSE IF ~l3.ok THEN [status |-> l3.err, curves |-> <<>>]
        ELSE [status |-> Loop2D_new(closed).status, curves |-> closed]

\* for i in 0..n { ... }: the curves and the count after iterations i..n-1
RECURSIVE HealFrom(_, _, _, _)
HealFrom(cs, tol, i, healed) ==
    IF i >= Len(cs) THEN [curves |-> cs, healed |-> healed]
    ELSE LET end_pt == CurveEnd(cs[i + 1])
             next_idx == (i + 1) % Len(cs)
             start_pt == CurveStart(cs[next_idx + 1])
             gap2 == Mag2(Sub(end_pt, start_pt))
         IN  IF gap2 > POINT_TOLERANCE * POINT_TOLERANCE /\ gap2 <= tol * tol
             THEN HealFrom([cs EXCEPT ![next_idx + 1] = Curve2D_set_start(@, end_pt)],
                           tol, i + 1, healed + 1)
             ELSE HealFrom(cs, tol, i + 1, healed)

\* a healing that leaves every curve where it is
Loop2D_heal_nothing(cs, tol) == [curves |-> cs, healed |-> 0]

Loop2D_heal_gaps(cs, tol) ==
    IF Len(cs) < 2 THEN [curves |-> cs, healed |-> 0]
    ELSE HealFrom(cs, tol, 0, 0)

\* self.curves.reverse(); each curve = curve.reversed()
Loop2D_reverse(cs) == [i \in 1..Len(cs) |-> Curve2D_reversed(cs[Len(cs) + 1 - i])]

\* the curves in reverse order, each as it was
Loop2D_order_reversed(cs) == Reverse(cs)

\* iter().rev().map(|c| c.reversed())
Loop2D_reversed(cs) == [i \in 1..Len(cs) |-> Curve2D_reversed(Reverse(cs)[i])]

\* Line2D::point_at(t), on a line between points whose coordinates are whole
\* numbers: start + t * (end - start), each step rounded as f64 rounds it
Line2D_point_at(line, t) ==
    <<FpAdd(FpOf(line.start[1]), FpMul(t, FpSub(FpOf(line.end[1]), FpOf(line.start[1])))),
      FpAdd(FpOf(line.start[2]), FpMul(t, FpSub(FpOf(line.end[2]), FpOf(line.start[2]))))>>

SAMPLES == 10

\* for i in 0..SAMPLES { area += (p1.x - p0.x) * (p1.y + p0.y) } on one line
RECURSIVE SampledArea(_, _, _)
SampledArea(line, i, area) ==
    IF i >= SAMPLES THEN area
    ELSE LET p0 == Line2D_point_at(line, FpDiv(i, SAMPLES))
             p1 == Line2D_point_at(line, FpDiv(i + 1, SAMPLES))
             sum == FpAdd(area, FpMul(FpSub(p1[1], p0[1]), FpAdd(p1[2], p0[2])))
         IN  IF sum.m = <<>> THEN SampledArea(line, i + 1, FpOf(0))
             ELSE SampledArea(line, i + 1, sum)

\* for curve in &self.curves { ... }, from the curve k on
RECURSIVE AreaFrom(_, _, _)
AreaFrom(cs, k, area) ==
    IF k > Len(cs) THEN area
    ELSE LET sum == SampledArea(cs[k], 0, area)
         IN  IF sum.m = <<>> THEN AreaFrom(cs, k + 1, FpOf(0)) ELSE AreaFrom(cs, k + 1, sum)

\* the sum is_ccw accumulates over a loop of lines
Loop2D_sampled_area(cs) == AreaFrom(cs, 1, FpOf(0))

\* area > 0.0
Loop2D_is_cw(cs) ==
    LET area == Loop2D_sampled_area(cs) IN ~area.neg /\ area.m # <<>>

\* area < 0.0
Loop2D_is_ccw(cs) == FpNegative(Loop2D_sampled_area(cs))

-----------------------------------------------------------------------------
(* Arcs off the lattice.  Arc2D::reversed starts the reversed arc at       *)
(* normalize_angle(start_angle + sweep_angle), and f64's TAU is 2.4e-16    *)
(* short of two pi: the end points of an arc whose end angle is not in     *)
(* [0, TAU) move by that much when it is reversed.  The arc here is        *)
(* Arc2D::new(Point2::new(0.0, 0.0), 1.0, 5.0, 3.0); its angles and points *)
(* are f64 values.                                                         *)

TAU_FP == Fp(FALSE, <<1443, 21777, 4349, 25>>, -47)
HEAL_TOLERANCE_FP == Fp(FALSE, <<28045, 16747, 7134, 134>>, -72)

FpEq(x, y) == FpSum(x, FpNeg(y)).m = <<>>
FpLess(x, y) == FpNegative(FpSum(x, FpNeg(y)))

\* x % y for y > 0.0: the remainder has the sign of x and is exact
RECURSIVE FpMod(_, _)
FpMod(x, y) ==
    IF x.neg THEN FpNeg(FpMod(FpNeg(x), y))
    ELSE IF FpLess(x, y) THEN x
    ELSE FpMod(FpSum(x, FpNeg(y)), y)

normalize_angle_fp(angle) ==
    LET a == FpMod(angle, TAU_FP)
    IN  IF FpNegative(a) THEN FpAdd(a, TAU_FP) ELSE a

\* the angles the arc and its reverse are measured at: 5.0, 5.0 + 3.0,
\* 8.0 % TAU = 1.7168146928204138 and that less 3.0
ArcAngles ==
    <<FpOf(5), FpOf(8), Fp(FALSE, <<31325, 10990, 28418, 6>>, -47),
      Fp(TRUE, <<1443, 21777, 4349, 5>>, -47)>>

AngleIndex(a) == CHOOSE i \in 1..Len(ArcAngles) : FpEq(a, ArcAngles[i])

\* f64::cos and f64::sin at these angles
CosF64(a) ==
    <<Fp(FALSE, <<19161, 24790, 7701, 145>>, -54),
      Fp(TRUE, <<19429, 24497, 8126, 37>>, -53),
      Fp(TRUE, <<19431, 24497, 8126, 37>>, -53),
      Fp(FALSE, <<9583, 28779, 20234, 72>>, -53)>>[AngleIndex(a)]

SinF64(a) ==
    <<Fp(TRUE, <<6451, 27585, 15879, 245>>, -53),
      Fp(FALSE, <<20347, 16465, 9034, 253>>, -53),
      Fp(FALSE, <<20347, 16465, 9034, 253>>, -53),
      Fp(TRUE, <<6451, 27585, 15879, 245>>, -53)>>[AngleIndex(a)]

\* center + radius * (angle.cos(), angle.sin())
Arc2D_point_fp(arc, angle) ==
    <<FpAdd(arc.center[1], FpMul(arc.radius, CosF64(angle))),
      FpAdd(arc.center[2], FpMul(arc.radius, SinF64(angle)))>>

Arc2D_start_fp(arc) == Arc2D_point_fp(arc, arc.start_angle)
Arc2D_end_fp(arc) == Arc2D_point_fp(arc, FpAdd(arc.start_angle, arc.sweep_angle))

Arc2D_reversed_fp(arc) ==
    [arc EXCEPT !.start_angle = normalize_angle_fp(FpAdd(arc.start_angle, arc.sweep_angle)),
                !.sweep_angle = FpNeg(arc.sweep_angle)]

\* Arc2D::new(center, radius, start_angle, sweep_angle).unwrap(), for a
\* radius and a sweep that pass the checks and a sweep the clamp leaves
Arc2D_new_fp(center, radius, start_angle, sweep_angle) ==
    [kind |-> "Arc", center |-> center, radius |-> radius,
     start_angle |-> normalize_angle_fp(start_angle), sweep_angle |-> sweep_angle]

\* Arc2D::new(Point2::new(0.0, 0.0), 1.0, 5.0, 3.0).unwrap()
ArcOffLattice(start_angle) == Arc2D_new_fp(<<FpOf(0), FpOf(0)>>, FpOf(1), start_angle, FpOf(3))

CurveStartFp(c) == IF c.kind = "Line" THEN c.start ELSE Arc2D_start_fp(c)
CurveEndFp(c) == IF c.kind = "Line" THEN c.end ELSE Arc2D_end_fp(c)
Curve2D_reversed_fp(c) ==
    IF c.kind = "Line" THEN Line2D_reversed(c) ELSE Arc2D_reversed_fp(c)

\* (p - q).magnitude() > tol.  The magnitude is the f64 square root of
\* x * x + y * y, and that is above tol when the sum is above the square of
\* the midpoint between tol and the next f64
MagnitudeExceeds(p, q, tol) ==
    LET x == FpSub(p[1], q[1])
        y == FpSub(p[2], q[2])
        sum == FpAdd(FpMul(x, x), FpMul(y, y))
        pad == MantissaBits - NatBits(tol.m)
        mid == NatAdd(NatShl(tol.m, pad + 1), <<1>>)
    IN  FpLess(Fp(FALSE, NatMul(mid, mid), 2 * (tol.e - pad - 1)), sum)

\* Loop2D::validate on curves with f64 points: the status alone
JunctionOpenFp(cs, i, tol) ==
    MagnitudeExceeds(CurveEndFp(cs[i + 1]), CurveStartFp(cs[((i + 1) % Len(cs)) + 1]), tol)

Loop2D_validate_fp(cs, tol) ==
    IF cs = <<>> THEN "EmptyLoop"
    ELSE IF Len(cs) = 1
         THEN IF MagnitudeExceeds(CurveStartFp(cs[1]), CurveEndFp(cs[1]), tol)
              THEN "OpenLoop" ELSE "Ok"
    ELSE IF \E i \in 0..(Len(cs) - 1) : JunctionOpenFp(cs, i, tol) THEN "OpenLoop"
    ELSE "Ok"

Loop2D_reversed_fp(cs) == [i \in 1..Len(cs) |-> Curve2D_reversed_fp(cs[Len(cs) + 1 - i])]

-----------------------------------------------------------------------------
(* plane.rs.  x_dir and y_dir are carried times 5; a lifted position is in *)
(* fifths of a unit.                                                       *)

Cross(u, v) ==
    <<u[2] * v[3] - u[3] * v[2], u[3] * v[1] - u[1] * v[3], u[1] * v[2] - u[2] * v[1]>>
Mag3sq(v) == v[1] * v[1] + v[2] * v[2] + v[3] * v[3]
Sub3(p, q) == <<p[1] - q[1], p[2] - q[2], p[3] - q[3]>>
Add3(p, q) == <<p[1] + q[1], p[2] + q[2], p[3] + q[3]>>
Scale3(k, v) == <<k * v[1], k * v[2], k * v[3]>>

\* v has a whole-number length that divides 5 v
NormalizeExact(v) ==
    \E m \in 1..25 : m * m = Mag3sq(v) /\ \A i \in 1..3 : (5 * v[i]) % m = 0

\* 5 * v.normalize()
Normalize5(v) ==
    LET m == CHOOSE m \in 1..25 : m * m = Mag3sq(v)
    IN  <<(5 * v[1]) \div m, (5 * v[2]) \div m, (5 * v[3]) \div m>>

NoPlane == [origin |-> <<0, 0, 0>>, x_dir |-> <<0, 0, 0>>, y_dir |-> <<0, 0, 0>>]

\* a vector of NaNs, as the normalisation of the zero vector gives: none of
\* its components is a number
NaN3 == <<>>

\* 5 * v.normalize(), NaN for the zero vector and for NaN
Normalize5OrNaN(v) == IF v = NaN3 \/ Mag3sq(v) = 0 THEN NaN3 ELSE Normalize5(v)

\* u.cross(v), NaN when either is
CrossOrNaN(u, v) == IF u = NaN3 \/ v = NaN3 THEN NaN3 ELSE Cross(u, v)

\* normal.magnitude() < DEGENERATE_TOLERANCE: false for NaN, as every
\* comparison with NaN is
NormalDegenerate(normal) == normal # NaN3 /\ BelowDegenerate(Mag3sq(normal))

\* Plane::new on whole-number vectors
Plane_new(origin, x_dir, y_dir) ==
    IF NormalDegenerate(CrossOrNaN(x_dir, y_dir))
    THEN [ok |-> FALSE, err |-> "DegeneratePlane", val |-> NoPlane]
    ELSE [ok |-> TRUE, err |-> "Ok",
          val |-> [origin |-> origin, x_dir |-> Normalize5OrNaN(x_dir),
                   y_dir |-> Normalize5OrNaN(y_dir)]]

\* v / 5 for a vector of multiples of 5, NaN for NaN
Fifth3(v) == IF v = NaN3 THEN NaN3 ELSE <<v[1] \div 5, v[2] \div 5, v[3] \div 5>>

\* Plane::from_three_points; x_dir, normal and y_dir times 5.  Plane::new
\* is given the directions times 5, which changes neither its test on
\* whole-number vectors nor what it stores.
Plane_from_three_points(p0, p1, p2) ==
    LET x_dir == Normalize5OrNaN(Sub3(p1, p0))
        temp == Sub3(p2, p0)
        normal == Normalize5OrNaN(CrossOrNaN(x_dir, temp))
        y_dir == Fifth3(CrossOrNaN(normal, x_dir))
    IN  Plane_new(p0, x_dir, y_dir)

\* the normalisations of Plane::from_three_points come out in whole fifths
PlanePointsExact(p0, p1, p2) ==
    LET d == Sub3(p1, p0)
    IN  Mag3sq(d) = 0 \/
        (/\ NormalizeExact(d)
         /\ LET n == Cross(Normalize5(d), Sub3(p2, p0))
            IN  Mag3sq(n) = 0 \/ NormalizeExact(n))

Plane_xy == [origin |-> <<0, 0, 0>>, x_dir |-> <<5, 0, 0>>, y_dir |-> <<0, 5, 0>>]
Plane_xz == [origin |-> <<0, 0, 0>>, x_dir |-> <<5, 0, 0>>, y_dir |-> <<0, 0, 5>>]
Plane_yz == [origin |-> <<0, 0, 0>>, x_dir |-> <<0, 5, 0>>, y_dir |-> <<0, 0, 5>>]
Plane_xy_at(z) == [origin |-> <<0, 0, z>>, x_dir |-> <<5, 0, 0>>, y_dir |-> <<0, 5, 0>>]

\* self.x_dir.cross(self.y_dir).normalize(), times 5
Plane_normal(plane) == Normalize5(Cross(plane.x_dir, plane.y_dir))

\* origin + x_dir * p.x + y_dir * p.y, in fifths
lift_point(plane, p) ==
    Add3(Scale3(5, plane.origin), Add3(Scale3(p[1], plane.x_dir), Scale3(p[2], plane.y_dir)))

-----------------------------------------------------------------------------
(* topology.rs.  A 3D position is base + dist * dir / |dir| (all in        *)
(* fifths): a lattice position has dir = 0, dist = 0; a position obtained  *)
(* by normalising a vector of irrational length keeps dir and dist.        *)

At(p) == [base |-> p, dir |-> <<0, 0, 0>>, dist |-> 0]

\* base + dist * dir.normalize(), for dir # 0 and dist > 0
AlongUnit(base, dir, dist) ==
    IF Mag3sq(dir) = dist * dist THEN At(Add3(base, dir))
    ELSE [base |-> base, dir |-> dir, dist |-> dist]

NoWire == [vertices |-> <<>>, edges |-> <<>>]

\* Angles inside arc_to_nurbs are counted in 1/NurbsScale of the lattice
\* unit, in which sweep_angle / n_segments and the halves of it are whole
\* numbers for n_segments in 1..4, and knots in 1/NurbsScale.
NurbsScale == 24

\* one segment whatever the sweep
n_segments_single(sweep_angle) == 1

\* n_segments = ceil(|sweep| / (PI / 2)).max(1)
n_segments_of(sweep_angle) ==
    Max((Abs(sweep_angle) + QuarterTurn - 1) \div QuarterTurn, 1)

\* for i in 0..n_segments: a control point is kept as its angle from
\* x_axis and the angle its weight is the cosine of (0 for the weight 1.0,
\* |segment_angle| / 2 for w1; the point of weight w1 lies at radius / w1)
RECURSIVE NurbsSegments(_, _, _, _)
NurbsSegments(i, n_segments, segment_angle, acc) ==
    IF i >= n_segments THEN acc
    ELSE LET theta0 == i * segment_angle
             theta1 == (i + 1) * segment_angle
             theta_mid == (theta0 + theta1) \div 2
             w1 == Abs(segment_angle) \div 2
             p0 == [angle |-> theta0, weight_angle |-> 0]
             p1 == [angle |-> theta_mid, weight_angle |-> w1]
             p2 == [angle |-> theta1, weight_angle |-> 0]
             knot_val == (NurbsScale * (i + 1)) \div n_segments
         IN  NurbsSegments(i + 1, n_segments, segment_angle,
                 [control_points |-> acc.control_points
                                       \o (IF i = 0 THEN <<p0>> ELSE <<>>) \o <<p1, p2>>,
                  knots |-> acc.knots \o <<knot_val, knot_val>>])

\* arc_to_nurbs: the rational curve is kept as the arguments it is built
\* from, its control points and its knot vector
arc_to_nurbs(center, normal, start, sweep_angle) ==
    LET n_segments == n_segments_of(sweep_angle)
        segment_angle == (NurbsScale * sweep_angle) \div n_segments
        body == NurbsSegments(0, n_segments, segment_angle,
                              [control_points |-> <<>>, knots |-> <<0, 0, 0>>])
    IN  [kind |-> "Nurbs", center |-> center, normal |-> normal, start |-> start,
         sweep_angle |-> sweep_angle, n_segments |-> n_segments,
         segment_angle |-> segment_angle,
         control_points |-> body.control_points,
         knots |-> Append(body.knots, NurbsScale)]

\* Edge::try_new(v0, v1, curve): the kernel refuses an edge whose two
\* vertices are the same vertex
Edge_try_new(v0, v1, curve) ==
    IF v0 = v1 THEN [ok |-> FALSE, err |-> "TruckEdgeError", val |-> NoCurve]
    ELSE [ok |-> TRUE, err |-> "Ok", val |-> [front |-> v0, back |-> v1, curve |-> curve]]

\* builder::line(v0, v1): the straight edge between the two vertices' points
line_to_edge_with_vertices(line, plane, verts, v0, v1) ==
    [ok |-> TRUE, err |-> "Ok",
     val |-> [front |-> v0, back |-> v1,
              curve |-> [kind |-> "Line", from |-> verts[v0], to |-> verts[v1]]]]

arc_to_edge_with_vertices(arc, plane, verts, v0, v1) ==
    LET start3d == lift_point(plane, Arc2D_start(arc))
        center3d == lift_point(plane, arc.center)
        normal == Plane_normal(plane)
        nurbs == arc_to_nurbs(At(center3d), normal, At(start3d), arc.sweep_angle)
    IN  Edge_try_new(v0, v1, nurbs)

bspline_to_edge_with_vertices(spline, plane, verts, v0, v1) ==
    LET lifted_pts == [i \in 1..Len(spline.points) |-> lift_point(plane, spline.points[i])]
    IN  Edge_try_new(v0, v1, [kind |-> "BSpline", points |-> lifted_pts])

\* the dispatch with a circle given an edge like any other curve
curve_to_edge_circles_too(curve, plane, verts, v0, v1) ==
    IF curve.kind = "Line" THEN line_to_edge_with_vertices(curve, plane, verts, v0, v1)
    ELSE IF curve.kind = "Arc" THEN arc_to_edge_with_vertices(curve, plane, verts, v0, v1)
    ELSE IF curve.kind = "Circle"
    THEN Edge_try_new(v0, v1, [kind |-> "Circle", center |-> lift_point(plane, curve.center)])
    ELSE bspline_to_edge_with_vertices(curve, plane, verts, v0, v1)

curve_to_edge_with_vertices(curve, plane, verts, v0, v1) ==
    CASE curve.kind = "Line" -> line_to_edge_with_vertices(curve, plane, verts, v0, v1)
      [] curve.kind = "Arc" -> arc_to_edge_with_vertices(curve, plane, verts, v0, v1)
      [] curve.kind = "Circle" -> [ok |-> FALSE, err |-> "TruckEdgeError", val |-> NoCurve]
      [] curve.kind = "BSpline" -> bspline_to_edge_with_vertices(curve, plane, verts, v0, v1)

\* vertices are named by their order of creation, 1, 2, ...
circle_to_wire(circle, plane) ==
    LET center3d == lift_point(plane, circle.center)
        start3d == lift_point(plane, Circle2D_start(circle))
        normal == Plane_normal(plane)
        radius == circle.radius
        opposite3d == AlongUnit(center3d, Sub3(center3d, start3d), 5 * radius)
        verts == <<At(start3d), opposite3d>>
        half_sweep == IF circle.ccw THEN PI ELSE -PI
        nurbs1 == arc_to_nurbs(At(center3d), normal, At(start3d), half_sweep)
        edge1 == Edge_try_new(1, 2, nurbs1)
        nurbs2 == arc_to_nurbs(At(center3d), normal, opposite3d, half_sweep)
        edge2 == Edge_try_new(2, 1, nurbs2)
    IN  IF ~edge1.ok THEN [status |-> edge1.err, wire |-> NoWire]
        ELSE IF ~edge2.ok THEN [status |-> edge2.err, wire |-> NoWire]
        ELSE [status |-> "Ok", wire |-> [vertices |-> verts, edges |-> <<edge1.val, edge2.val>>]]

\* the edges built without the wrap-around: edge i ends at vertex min(i + 1, n - 1)
RECURSIVE EdgesFrom_nowrap(_, _, _, _, _)
EdgesFrom_nowrap(cs, plane, verts, i, edges) ==
    IF i >= Len(cs) THEN [status |-> "Ok", wire |-> [vertices |-> verts, edges |-> edges]]
    ELSE LET e == curve_to_edge_with_vertices(cs[i + 1], plane, verts,
                                              i + 1, Min(i + 2, Len(cs)))
         IN  IF ~e.ok THEN [status |-> e.err, wire |-> NoWire]
             ELSE EdgesFrom_nowrap(cs, plane, verts, i + 1, Append(edges, e.val))

\* for i in 0..n { edges.push(curve_to_edge_with_vertices(..)?) }
RECURSIVE EdgesFrom(_, _, _, _, _)
EdgesFrom(cs, plane, verts, i, edges) ==
    IF i >= Len(cs) THEN [status |-> "Ok", wire |-> [vertices |-> verts, edges |-> edges]]
    ELSE LET e == curve_to_edge_with_vertices(cs[i + 1], plane, verts,
                                              i + 1, ((i + 1) % Len(cs)) + 1)
         IN  IF ~e.ok THEN [status |-> e.err, wire |-> NoWire]
             ELSE EdgesFrom(cs, plane, verts, i + 1, Append(edges, e.val))

to_truck_wire(cs, plane) ==
    IF cs = <<>> THEN [status |-> "EmptyLoop", wire |-> NoWire]
    ELSE IF Len(cs) = 1
         THEN IF cs[1].kind = "Circle" THEN circle_to_wire(cs[1], plane)
              ELSE [status |-> "OpenLoop", wire |-> NoWire]
    ELSE LET vertices == [i \in 1..Len(cs) |-> At(lift_point(plane, CurveStart(cs[i])))]
         IN  EdgesFrom(cs, plane, vertices, 0, <<>>)

-----------------------------------------------------------------------------
(* mod.rs: Sketch.  A sketch is its outer loop and its holes, each the     *)
(* curves of a Loop2D; a face is its boundary wires, the outer one first.  *)

NoFace == [boundaries |-> <<>>]

\* Plane::to_truck_plane: the three points the kernel's plane goes through
Plane_to_truck_plane(plane) ==
    IF NormalDegenerate(CrossOrNaN(plane.x_dir, plane.y_dir))
    THEN [ok |-> FALSE, err |-> "DegeneratePlane", val |-> NoPlane]
    ELSE [ok |-> TRUE, err |-> "Ok", val |-> plane]

\* the kernel's tests of a boundary wire: its edges follow one another
\* round, and no vertex is met twice
WireClosed(wire) ==
    \A i \in 1..Len(wire.edges) :
        wire.edges[i].back = wire.edges[(i % Len(wire.edges)) + 1].front
WireSimple(wire) ==
    \A i, j \in 1..Len(wire.edges) : wire.edges[i].front = wire.edges[j].front => i = j

\* Face::try_new(vec![outer_wire], surface).map_err(TruckFaceError)
Face_try_new(wire) ==
    IF wire.edges = <<>> \/ ~WireClosed(wire) \/ ~WireSimple(wire)
    THEN [ok |-> FALSE, err |-> "TruckFaceError", val |-> NoFace]
    ELSE [ok |-> TRUE, err |-> "Ok", val |-> [boundaries |-> <<wire>>]]

\* the loop over the holes visiting all of them and keeping the wires made
RECURSIVE HolesFrom_skip_failed(_, _, _, _)
HolesFrom_skip_failed(holes, plane, i, face) ==
    IF i >= Len(holes) THEN [status |-> "Ok", face |-> face, holes_done |-> i]
    ELSE LET hole_wire == to_truck_wire(holes[i + 1], plane)
         IN  HolesFrom_skip_failed(holes, plane, i + 1,
                 IF hole_wire.status # "Ok" THEN face
                 ELSE [boundaries |-> Append(face.boundaries, hole_wire.wire)])

\* for hole in &self.holes { ... }: the face after the holes i.. , or the
\* error of the first hole whose wire fails
RECURSIVE HolesFrom(_, _, _, _)
HolesFrom(holes, plane, i, face) ==
    IF i >= Len(holes) THEN [status |-> "Ok", face |-> face, holes_done |-> i]
    ELSE LET hole_wire == to_truck_wire(holes[i + 1], plane)
         IN  IF hole_wire.status # "Ok"
             THEN [status |-> hole_wire.status, face |-> NoFace, holes_done |-> i]
             ELSE HolesFrom(holes, plane, i + 1,
                            [boundaries |-> Append(face.boundaries, hole_wire.wire)])

\* Sketch::to_truck_face
Sketch_to_truck_face(sketch, plane) ==
    LET truck_plane == Plane_to_truck_plane(plane)
        outer_wire == to_truck_wire(sketch.outer, plane)
        face == Face_try_new(outer_wire.wire)
    IN  IF ~truck_plane.ok THEN [status |-> truck_plane.err, face |-> NoFace, holes_done |-> 0]
        ELSE IF outer_wire.status # "Ok"
        THEN [status |-> outer_wire.status, face |-> NoFace, holes_done |-> 0]
        ELSE IF ~face.ok THEN [status |-> face.err, face |-> NoFace, holes_done |-> 0]
        ELSE HolesFrom(sketch.holes, plane, 0, face.val)

\* Sketch::extrude and Sketch::revolve: the solid is kept as the face swept
Sketch_sweep(sketch, plane) == Sketch_to_truck_face(sketch, plane)

-----------------------------------------------------------------------------
(* The calls' arguments *)

\* the builder starts at B = (6000, 0) or at the origin; it draws to the origin, to B and to
\* a point 2 units from B (a gap within POINT_TOLERANCE), by offsets of 6000,
\* on arcs about the origin and on splines to (12000, 0)
Pts == {<<0, 0>>, <<6000, 0>>, <<6002, 0>>}
MovePts == {<<6000, 0>>, <<0, 0>>}
Offsets == {0, 6000}
LineBys == {<<0, 0>>, <<-6000, 0>>}
ArcCenters == {<<0, 0>>}
ArcTos == {<<<<6000, 0>>, TRUE>>, <<<<-6000, 0>>, FALSE>>}
ArcThroughs == {<<<<0, 6000>>, <<-6000, 0>>>>, <<<<0, 0>>, <<-6000, 0>>>>}
ArcByAngles == {<<0, QuarterTurn, TRUE>>, <<6000, 0, TRUE>>, <<6000, QuarterTurn, TRUE>>,
                <<6000, -PI, FALSE>>}
Controls == {<<9000, 3000>>}
CubicControls == {<<<<8000, 2000>>, <<10000, 2000>>>>}
SplineEnds == {<<12000, 0>>}
SplinePoints == {<<>>, <<<<12000, 0>>>>}
\* der(t1).normalize() of a spline, times 5: the kernel's
KernelTangents == {<<5, 0>>, <<0, 5>>}

-----------------------------------------------------------------------------
(* builder.rs *)

NoResult ==
    [op |-> "SketchBuilder::new", status |-> "Ok", index |-> 0, gap2 |-> 0, healed |-> 0,
     wire |-> NoWire, tol |-> 0, plane |-> NoPlane, before |-> <<>>, moves |-> 0,
     len |-> 0, face |-> NoFace]

\* nothing constructed on its own
NoMade == [args |-> <<>>, val |-> NoCurve, orig |-> NoCurve, revs |-> 0]

\* Ok(self): the builder returned is the builder held
Continued(op) == [NoResult EXCEPT !.op = op]

\* the result of a builder call that consumed the builder: what it returned,
\* on a builder that had seen so many move_to calls and held so many curves
BuilderResult(op, status) ==
    [NoResult EXCEPT !.op = op, !.status = status, !.moves = move_count,
                     !.len = Len(curves)]

\* Option::unwrap_or_default in place of ok_or: a missing point reads as the origin
ok_or_origin(opt, e) == Ok(IF opt = None THEN <<0, 0>> ELSE opt)

\* Option::ok_or
ok_or(opt, e) == IF opt = None THEN Err(e) ELSE Ok(opt)

Init ==
    /\ builder = TRUE
    /\ curves = <<>>
    /\ current_pos = None
    /\ start_pos = None
    /\ move_count = 0
    /\ loop = NoLoop
    /\ result = NoResult
    /\ kernel \in KernelBuilds
    /\ made = NoMade

\* the caller holds nothing: no builder, no loop
Dropped == [NoResult EXCEPT !.op = "drop"]
Idle == ~builder /\ ~loop.live /\ result = Dropped

\* the caller lets go of the loop, or of the result of a failed call
Drop ==
    /\ ~builder
    /\ ~Idle
    /\ loop' = NoLoop
    /\ made' = NoMade
    /\ UNCHANGED kernel
    /\ result' = Dropped
    /\ UNCHANGED <<builder, curves, current_pos, start_pos, move_count>>

\* SketchBuilder::new()
New ==
    /\ Idle
    /\ builder' = TRUE
    /\ curves' = <<>>
    /\ current_pos' = None
    /\ start_pos' = None
    /\ move_count' = 0
    /\ loop' = NoLoop
    /\ UNCHANGED <<kernel, made>>
    /\ result' = NoResult

\* a call that returns Err: the builder was moved into the call and is gone
Fail(op, e) ==
    /\ builder' = FALSE
    /\ curves' = <<>>
    /\ current_pos' = None
    /\ start_pos' = None
    /\ move_count' = 0
    /\ loop' = NoLoop
    /\ UNCHANGED <<kernel, made>>
    /\ result' = BuilderResult(op, e)

\* self.curves.push(c); self.current_pos = Some(pt); Ok(self)
Push(op, c, pt) ==
    /\ Len(curves) < MaxCurves
    /\ builder' = TRUE
    /\ curves' = Append(curves, c)
    /\ current_pos' = pt
    /\ UNCHANGED <<start_pos, move_count, loop>>
    /\ UNCHANGED <<kernel, made>>
    /\ result' = Continued(op)

\* a move_to that starts the sketch over at pt
move_to_restart(pt) ==
    /\ builder
    /\ current_pos' = pt
    /\ start_pos' = pt
    /\ move_count' = Min(move_count + 1, 2)
    /\ UNCHANGED <<builder, curves, loop>>
    /\ UNCHANGED <<kernel, made>>
    /\ result' = Continued("move_to")

move_to(pt) ==
    /\ builder
    /\ current_pos' = pt
    /\ start_pos' = IF start_pos = None THEN pt ELSE start_pos
    /\ move_count' = Min(move_count + 1, 2)
    /\ UNCHANGED <<builder, curves, loop>>
    /\ UNCHANGED <<kernel, made>>
    /\ result' = Continued("move_to")

\* the body of line_to, returning under the name of the method called
LineToAs(op, pt) ==
    LET start == ok_or(current_pos, "NoStartingPoint")
    IN  IF ~start.ok THEN Fail(op, start.err)
        ELSE LET line == Line2D_new(start.val, pt)
             IN  IF ~line.ok THEN Fail(op, line.err)
                 ELSE Push(op, line.val, pt)

line_to(pt) == builder /\ LineToAs("line_to", pt)

horizontal(dx) ==
    /\ builder
    /\ LET current == ok_or(current_pos, "NoStartingPoint")
       IN  IF ~current.ok THEN Fail("horizontal", current.err)
           ELSE LineToAs("horizontal", <<current.val[1] + dx, current.val[2]>>)

vertical(dy) ==
    /\ builder
    /\ LET current == ok_or(current_pos, "NoStartingPoint")
       IN  IF ~current.ok THEN Fail("vertical", current.err)
           ELSE LineToAs("vertical", <<current.val[1], current.val[2] + dy>>)

line_by(dx, dy) ==
    /\ builder
    /\ LET current == ok_or(current_pos, "NoStartingPoint")
       IN  IF ~current.ok THEN Fail("line_by", current.err)
           ELSE LineToAs("line_by", <<current.val[1] + dx, current.val[2] + dy>>)

arc_to(end, center, ccw) ==
    /\ builder
    /\ LET start == ok_or(current_pos, "NoStartingPoint")
       IN  IF ~start.ok THEN Fail("arc_to", start.err)
           ELSE /\ ArcInputsExact(start.val, end, center)
                /\ LET arc == Arc2D_from_start_end_center(start.val, end, center, ccw)
                   IN  IF ~arc.ok THEN Fail("arc_to", arc.err)
                       ELSE Push("arc_to", arc.val, end)

arc_through(mid, end) ==
    /\ builder
    /\ LET start == ok_or(current_pos, "NoStartingPoint")
       IN  IF ~start.ok THEN Fail("arc_through", start.err)
           ELSE /\ ThreePointInputsExact(start.val, mid, end)
                /\ LET arc == Arc2D_from_three_points(start.val, mid, end)
                   IN  IF ~arc.ok THEN Fail("arc_through", arc.err)
                       ELSE Push("arc_through", arc.val, end)

\* tangent5 is last.tangent_at(1.0).normalize() times 5, or (1, 0) times 5
ArcByAngleFrom(start, tangent5, radius, sweep_angle, ccw) ==
    LET perp5 == IF ccw THEN <<-tangent5[2], tangent5[1]>> ELSE <<tangent5[2], -tangent5[1]>>
        center == <<start[1] + (perp5[1] * radius) \div 5, start[2] + (perp5[2] * radius) \div 5>>
        start_angle == Atan2(start[2] - center[2], start[1] - center[1])
        actual_sweep == IF ccw THEN Abs(sweep_angle) ELSE -Abs(sweep_angle)
        arc == Arc2D_new(center, radius, start_angle, actual_sweep)
    IN  /\ (perp5[1] * radius) % 5 = 0 /\ (perp5[2] * radius) % 5 = 0
        /\ IF ~arc.ok THEN Fail("arc_by_angle", arc.err)
           ELSE /\ AngleSumExact(arc.val.start_angle, arc.val.sweep_angle)
                /\ Push("arc_by_angle", arc.val, Arc2D_end(arc.val))

arc_by_angle(radius, sweep_angle, ccw) ==
    /\ builder
    /\ LET start == ok_or(current_pos, "NoStartingPoint")
       IN  IF ~start.ok THEN Fail("arc_by_angle", start.err)
           ELSE IF curves = <<>>
                THEN ArcByAngleFrom(start.val, <<5, 0>>, radius, sweep_angle, ccw)
           ELSE LET last == curves[Len(curves)]
                IN  CASE last.kind = "Line" ->
                           /\ LineTangentExact(last)
                           /\ ArcByAngleFrom(start.val, Line2D_unit_tangent5(last),
                                             radius, sweep_angle, ccw)
                      [] last.kind = "Arc" ->
                           ArcByAngleFrom(start.val, Arc2D_tangent_end5(last),
                                          radius, sweep_angle, ccw)
                      [] last.kind = "BSpline" ->
                           \E t5 \in KernelTangents :
                              ArcByAngleFrom(start.val, t5, radius, sweep_angle, ccw)

\* p + (q - p) * (2.0 / 3.0), for a difference that is a multiple of 3
TwoThirds(p, q) == <<p[1] + (2 * (q[1] - p[1])) \div 3, p[2] + (2 * (q[2] - p[2])) \div 3>>
TwoThirdsExact(p, q) == (q[1] - p[1]) % 3 = 0 /\ (q[2] - p[2]) % 3 = 0

\* the body common to quadratic_to and cubic_to
SplineTo(op, points, end) ==
    LET spline == BSpline2D_from_control_points(points, 3)
    IN  IF ~spline.ok THEN Fail(op, spline.err)
        ELSE Push(op, spline.val, end)

quadratic_to(control, end) ==
    /\ builder
    /\ LET start == ok_or(current_pos, "NoStartingPoint")
       IN  IF ~start.ok THEN Fail("quadratic_to", start.err)
           ELSE /\ TwoThirdsExact(start.val, control)
                /\ TwoThirdsExact(end, control)
                /\ SplineTo("quadratic_to",
                            <<start.val, TwoThirds(start.val, control),
                              TwoThirds(end, control), end>>, end)

cubic_to(cp1, cp2, end) ==
    /\ builder
    /\ LET start == ok_or(current_pos, "NoStartingPoint")
       IN  IF ~start.ok THEN Fail("cubic_to", start.err)
           ELSE SplineTo("cubic_to", <<start.val, cp1, cp2, end>>, end)

spline_through(points) ==
    /\ builder
    /\ LET start == ok_or(current_pos, "NoStartingPoint")
       IN  IF ~start.ok THEN Fail("spline_through", start.err)
           ELSE LET all_points == <<start.val>> \o points
                    spline == BSpline2D_interpolate(all_points, 3)
                    end == IF points = <<>> THEN Err("DegenerateCurve")
                           ELSE Ok(points[Len(points)])
                IN  IF ~spline.ok THEN Fail("spline_through", spline.err)
                    ELSE IF ~end.ok THEN Fail("spline_through", end.err)
                    ELSE Push("spline_through", spline.val, end.val)

\* the end of close and close_with_arc with Loop2D::new_unchecked
CloseWith_unchecked(op, cs) ==
    /\ builder' = FALSE
    /\ curves' = <<>>
    /\ current_pos' = None
    /\ start_pos' = None
    /\ move_count' = 0
    /\ loop' = Loop2D(cs)
    /\ UNCHANGED <<kernel, made>>
    /\ result' = [BuilderResult(op, "Ok") EXCEPT !.before = cs]

\* the end of close and close_with_arc: Loop2D::new(self.curves)
CloseWith(op, cs) ==
    LET v == Loop2D_new(cs)
    IN  /\ builder' = FALSE
        /\ curves' = <<>>
        /\ current_pos' = None
        /\ start_pos' = None
        /\ move_count' = 0
        /\ loop' = IF v.status = "Ok" THEN Loop2D(cs) ELSE NoLoop
        /\ UNCHANGED <<kernel, made>>
        /\ result' = [BuilderResult(op, v.status)
                         EXCEPT !.index = v.index, !.gap2 = v.gap2, !.before = cs]

\* close that never adds the closing line
close_as_drawn ==
    /\ builder
    /\ IF curves = <<>> THEN Fail("close", "CannotCloseEmpty")
       ELSE LET start == ok_or(start_pos, "NoStartingPoint")
                current == ok_or(current_pos, "NoStartingPoint")
            IN  IF ~start.ok THEN Fail("close", start.err)
                ELSE IF ~current.ok THEN Fail("close", current.err)
                ELSE CloseWith("close", curves)

\* close that adds the closing line whatever the gap is
close_always_line ==
    /\ builder
    /\ IF curves = <<>> THEN Fail("close", "CannotCloseEmpty")
       ELSE LET start == ok_or(start_pos, "NoStartingPoint")
                current == ok_or(current_pos, "NoStartingPoint")
            IN  IF ~start.ok THEN Fail("close", start.err)
                ELSE IF ~current.ok THEN Fail("close", current.err)
                ELSE CloseWith("close",
                        Append(curves, Line2D_new_unchecked(current.val, start.val)))

close ==
    /\ builder
    /\ IF curves = <<>> THEN Fail("close", "CannotCloseEmpty")
       ELSE LET start == ok_or(start_pos, "NoStartingPoint")
                current == ok_or(current_pos, "NoStartingPoint")
            IN  IF ~start.ok THEN Fail("close", start.err)
                ELSE IF ~current.ok THEN Fail("close", current.err)
                ELSE IF GapExceeds(current.val, start.val, POINT_TOLERANCE)
                     THEN CloseWith("close",
                             Append(curves, Line2D_new_unchecked(current.val, start.val)))
                     ELSE CloseWith("close", curves)

\* close_with_arc asking for the positions before it looks at the curves
close_with_arc_positions_first(center, ccw) ==
    /\ builder
    /\ LET start == ok_or(start_pos, "NoStartingPoint")
           current == ok_or(current_pos, "NoStartingPoint")
       IN  IF ~start.ok THEN Fail("close_with_arc", start.err)
           ELSE IF ~current.ok THEN Fail("close_with_arc", current.err)
           ELSE IF curves = <<>> THEN Fail("close_with_arc", "CannotCloseEmpty")
           ELSE /\ ArcInputsExact(current.val, start.val, center)
                /\ LET arc == Arc2D_from_start_end_center(current.val, start.val,
                                                          center, ccw)
                   IN  IF ~arc.ok THEN Fail("close_with_arc", arc.err)
                       ELSE CloseWith("close_with_arc", Append(curves, arc.val))

close_with_arc(center, ccw) ==
    /\ builder
    /\ IF curves = <<>> THEN Fail("close_with_arc", "CannotCloseEmpty")
       ELSE LET start == ok_or(start_pos, "NoStartingPoint")
                current == ok_or(current_pos, "NoStartingPoint")
            IN  IF ~start.ok THEN Fail("close_with_arc", start.err)
                ELSE IF ~current.ok THEN Fail("close_with_arc", current.err)
                ELSE /\ ArcInputsExact(current.val, start.val, center)
                     /\ LET arc == Arc2D_from_start_end_center(current.val, start.val,
                                                               center, ccw)
                        IN  IF ~arc.ok THEN Fail("close_with_arc", arc.err)
                            ELSE CloseWith("close_with_arc", Append(curves, arc.val))

-----------------------------------------------------------------------------
(* Calls on a Loop2D.  The caller holds one value at a time: a Loop2D is   *)
(* built from curves when nothing is held.  validate and to_truck_wire     *)
(* take &self and leave the loop as it was, so the calls that can follow   *)
(* them are the calls that can be made in their place: the model makes     *)
(* them there, and after a validate or to_truck_wire only lets go.         *)

\* the curves handed to Loop2D::new, new_unchecked and from_closed_curve
LineAB == Line2D_new_unchecked(<<0, 0>>, <<6000, 0>>)
LineBA == Line2D_new_unchecked(<<6000, 0>>, <<0, 0>>)
LineNearBA == Line2D_new_unchecked(<<6002, 0>>, <<2, 0>>)
LineHealBA == Line2D_new_unchecked(<<6006, 0>>, <<0, 0>>)
LineTiny == Line2D_new_unchecked(<<0, 0>>, <<2, 0>>)
ArcHealBA == Arc2D_new(<<3006, 0>>, 3000, 0, PI).val
ArcFull == Arc2D_from_start_end_center(<<6000, 0>>, <<6000, 0>>, <<3000, 0>>, TRUE).val
CircleB == Circle2D_with_seam(<<3000, 0>>, 3000, 0, TRUE).val
CircleSeam == Circle2D_with_seam(<<0, 0>>, 50, 2 * AngleStep, FALSE).val
SplineBA ==
    BSpline2D_from_control_points(<<<<6000, 0>>, <<4000, 2000>>, <<2000, 2000>>, <<0, 0>>>>,
                                  3).val

LoopCurves ==
    {LineAB, LineBA, LineNearBA, LineHealBA, LineTiny,
     ArcHealBA, ArcFull, CircleB, CircleSeam, SplineBA}

CurveSeqs == UNION {[1..n -> LoopCurves] : n \in 0..MaxLoopLen}

Tols == {0, POINT_TOLERANCE, HEAL_TOLERANCE}

Planes ==
    {Plane_xy, Plane_xz, Plane_xy_at(7), Plane_new(<<0, 0, 0>>, <<1, 0, 0>>, <<3, 4, 0>>).val}

\* a loop is held and the last call was not one of the two read-only calls
LoopHeld == loop.live /\ result.op \notin {"validate", "to_truck_wire"}

\* the result of a call on the held loop (or on the curves given): what it
\* returned, and the curves it was called on
LoopResult(op, status, cs) == [NoResult EXCEPT !.op = op, !.status = status, !.before = cs]

Loop2D_new_call(cs) ==
    /\ Idle
    /\ LET v == Loop2D_new(cs)
       IN  /\ loop' = IF v.status = "Ok" THEN Loop2D(cs) ELSE NoLoop
           /\ UNCHANGED <<kernel, made>>
           /\ result' = [LoopResult("Loop2D::new", v.status, cs)
                            EXCEPT !.index = v.index, !.gap2 = v.gap2]
    /\ UNCHANGED <<builder, curves, current_pos, start_pos, move_count>>

Loop2D_new_unchecked_call(cs) ==
    /\ Idle
    /\ loop' = Loop2D(cs)
    /\ UNCHANGED <<kernel, made>>
    /\ result' = LoopResult("Loop2D::new_unchecked", "Ok", cs)
    /\ UNCHANGED <<builder, curves, current_pos, start_pos, move_count>>

from_closed_curve(c) ==
    /\ Idle
    /\ LET v == Loop2D_from_closed_curve(c)
       IN  /\ loop' = IF v.status = "Ok" THEN Loop2D(<<c>>) ELSE NoLoop
           /\ UNCHANGED <<kernel, made>>
           /\ result' = [LoopResult("from_closed_curve", v.status, <<c>>)
                            EXCEPT !.index = v.index, !.gap2 = v.gap2]
    /\ UNCHANGED <<builder, curves, current_pos, start_pos, move_count>>

validate(tol) ==
    /\ LoopHeld
    /\ LET v == Loop2D_validate(loop.curves, tol)
       IN  result' = [LoopResult("validate", v.status, loop.curves)
                         EXCEPT !.index = v.index, !.gap2 = v.gap2, !.tol = tol]
    /\ UNCHANGED <<builder, curves, current_pos, start_pos, move_count, loop, kernel,
                 made>>

heal_gaps(tol) ==
    /\ LoopHeld
    /\ LET h == Loop2D_heal_gaps(loop.curves, tol)
       IN  /\ loop' = Loop2D(h.curves)
           /\ UNCHANGED <<kernel, made>>
           /\ result' = [LoopResult("heal_gaps", "Ok", loop.curves)
                            EXCEPT !.healed = h.healed, !.tol = tol]
    /\ UNCHANGED <<builder, curves, current_pos, start_pos, move_count>>

reverse ==
    /\ LoopHeld
    /\ loop' = Loop2D(Loop2D_reverse(loop.curves))
    /\ UNCHANGED <<kernel, made>>
    /\ result' = LoopResult("reverse", "Ok", loop.curves)
    /\ UNCHANGED <<builder, curves, current_pos, start_pos, move_count>>

\* the copy returned replaces the loop held
reversed ==
    /\ LoopHeld
    /\ loop' = Loop2D(Loop2D_reversed(loop.curves))
    /\ UNCHANGED <<kernel, made>>
    /\ result' = LoopResult("reversed", "Ok", loop.curves)
    /\ UNCHANGED <<builder, curves, current_pos, start_pos, move_count>>

to_truck_wire_call(plane) ==
    /\ LoopHeld
    /\ LET w == to_truck_wire(loop.curves, plane)
       IN  result' = [LoopResult("to_truck_wire", w.status, loop.curves)
                         EXCEPT !.wire = w.wire, !.plane = plane,
                                !.gap2 = IF w.status = "OpenLoop"
                                         THEN Mag2(Sub(CurveEnd(loop.curves[1]),
                                                       CurveStart(loop.curves[1])))
                                         ELSE 0]
    /\ UNCHANGED <<builder, curves, current_pos, start_pos, move_count, loop, kernel,
                 made>>

-----------------------------------------------------------------------------

\* the calls on a SketchBuilder
Next ==
    \/ New
    \/ Drop
    \/ \E pt \in MovePts : move_to(pt)
    \/ \E pt \in Pts : line_to(pt)
    \/ \E dx \in Offsets : horizontal(dx)
    \/ \E dy \in Offsets : vertical(dy)
    \/ \E d \in LineBys : line_by(d[1], d[2])
    \/ \E a \in ArcTos, center \in ArcCenters : arc_to(a[1], center, a[2])
    \/ \E a \in ArcThroughs : arc_through(a[1], a[2])
    \/ \E a \in ArcByAngles : arc_by_angle(a[1], a[2], a[3])
    \/ \E control \in Controls, end \in SplineEnds : quadratic_to(control, end)
    \/ \E cp \in CubicControls, end \in SplineEnds : cubic_to(cp[1], cp[2], end)
    \/ \E points \in SplinePoints : spline_through(points)
    \/ close
    \/ \E center \in ArcCenters, ccw \in BOOLEAN : close_with_arc(center, ccw)

Spec == Init /\ [][Next]_vars

\* the calls on a SketchBuilder that draws short lines among others, and
\* on the loop that close and close_with_arc return
HealMovePts == {<<0, 0>>}
HealPts == {<<0, 0>>, <<0, 20>>, <<6000, 0>>}
HealOffsets == {0, 20}

HealNext ==
    \/ New
    \/ Drop
    \/ \E pt \in HealMovePts : move_to(pt)
    \/ \E pt \in HealPts : line_to(pt)
    \/ \E dx \in HealOffsets : horizontal(dx)
    \/ \E dy \in HealOffsets : vertical(dy)
    \/ \E d \in LineBys : line_by(d[1], d[2])
    \/ \E a \in ArcTos, center \in ArcCenters : arc_to(a[1], center, a[2])
    \/ \E a \in ArcThroughs : arc_through(a[1], a[2])
    \/ \E a \in ArcByAngles : arc_by_angle(a[1], a[2], a[3])
    \/ \E control \in Controls, end \in SplineEnds : quadratic_to(control, end)
    \/ \E cp \in CubicControls, end \in SplineEnds : cubic_to(cp[1], cp[2], end)
    \/ \E points \in SplinePoints : spline_through(points)
    \/ close
    \/ \E center \in ArcCenters, ccw \in BOOLEAN : close_with_arc(center, ccw)
    \/ \E tol \in Tols : heal_gaps(tol)
    \/ reverse
    \/ reversed

HealSpec == Init /\ [][HealNext]_vars

\* the arc and a line from (x, y), y the arc's end height, back to the arc's
\* start
ArcAndLine(arc, x) ==
    <<arc, Line2D_new_unchecked(<<x, Arc2D_end_fp(arc)[2]>>, Arc2D_start_fp(arc))>>

OffLatticeLoop(x) == ArcAndLine(ArcOffLattice(FpOf(5)), x)

\* Loop2D::new(curves), the curves off the lattice
Loop2D_new_fp(cs) ==
    LET status == Loop2D_validate_fp(cs, HEAL_TOLERANCE_FP)
    IN  [status |-> status,
         val |-> IF status = "Ok" THEN [kind |-> "LoopFp", curves |-> cs] ELSE NoCurve]

Loop2D_new_fp_call(x) ==
    /\ Idle
    /\ made = NoMade
    /\ \E made_fp \in {Loop2D_new_fp(OffLatticeLoop(x))} :
           /\ made' = [args |-> <<x>>, val |-> made_fp.val, orig |-> made_fp.val, revs |-> 0]
           /\ result' = [NoResult EXCEPT !.op = "Loop2D::new(f64)", !.status = made_fp.status]
    /\ UNCHANGED <<builder, curves, current_pos, start_pos, move_count, loop, kernel>>

\* loop.reversed() on the loop made; the copy replaces it
reversed_fp_call ==
    /\ made.val.kind = "LoopFp"
    /\ made.revs < 2
    /\ made' = [made EXCEPT !.val.curves = Loop2D_reversed_fp(@), !.revs = @ + 1]
    /\ result' = [NoResult EXCEPT !.op = "reversed(f64)"]
    /\ UNCHANGED <<builder, curves, current_pos, start_pos, move_count, loop, kernel>>

\* loop.validate(HEAL_TOLERANCE) on the loop made
validate_fp_call ==
    /\ made.val.kind = "LoopFp"
    /\ result.op # "validate(f64)"
    /\ result' = [NoResult EXCEPT
                     !.op = "validate(f64)",
                     !.status = Loop2D_validate_fp(made.val.curves, HEAL_TOLERANCE_FP)]
    /\ UNCHANGED <<builder, curves, current_pos, start_pos, move_count, loop, kernel,
                   made>>

\* where the line starts: with a gap to the arc's end of half the tolerance,
\* of the most the tolerance allows, and of twice the tolerance
OffLatticeStarts ==
    {Fp(TRUE, <<18279, 6986, 32490, 148>>, -55),
     Fp(TRUE, <<12189, 23527, 16236, 74>>, -54),
     Fp(TRUE, <<3805, 28887, 32439, 148>>, -55)}

\* the calls on a Loop2D, starting with nothing held
LoopInit ==
    /\ builder = FALSE
    /\ curves = <<>>
    /\ current_pos = None
    /\ start_pos = None
    /\ move_count = 0
    /\ loop = NoLoop
    /\ result = Dropped
    /\ kernel \in KernelBuilds
    /\ made = NoMade

LoopNext ==
    \/ Drop
    \/ \E cs \in CurveSeqs : Loop2D_new_call(cs)
    \/ \E cs \in CurveSeqs : Loop2D_new_unchecked_call(cs)
    \/ \E c \in LoopCurves : from_closed_curve(c)
    \/ \E tol \in Tols : validate(tol)
    \/ \E tol \in Tols : heal_gaps(tol)
    \/ reverse
    \/ reversed
    \/ \E plane \in Planes : to_truck_wire_call(plane)
    \/ \E x \in OffLatticeStarts : Loop2D_new_fp_call(x)
    \/ reversed_fp_call
    \/ validate_fp_call

LoopSpec == LoopInit /\ [][LoopNext]_vars

-----------------------------------------------------------------------------
(* The primitives and the plane on their own: the constructors are called  *)
(* with arguments from the sets below, and a curve made can be reversed    *)
(* or, a circle, turned into an arc.  made holds the value returned (with  *)
(* the arguments given), result what the call returned.  A constructor    *)
(* is called when nothing is held; the caller lets go of what was made     *)
(* before the next is called.                                              *)

\* arguments of Arc2D::new: radii at and above zero, start angles on and off
\* [0, 2*pi), one of them a unit below zero, sweeps up to three half turns
ArcRadii == {-3000, 0, 3000}
ArcStartAngles == {-1, 0, 1, QuarterTurn, -QuarterTurn, TAU + QuarterTurn}
ArcSweeps == {0, 1, -1, QuarterTurn, -PI, TAU, 3 * PI, -3 * PI}
ArcEnds == {<<6000, 0>>, <<-6000, 0>>, <<0, 6000>>, <<0, -6000>>, <<0, 6004>>, <<0, 6008>>}
Triples ==
    {<<<<6000, 0>>, <<0, 6000>>, <<-6000, 0>>>>,
     <<<<6000, 0>>, <<0, -6000>>, <<-6000, 0>>>>,
     <<<<6000, 0>>, <<0, 6000>>, <<0, -6000>>>>,
     <<<<0, 6000>>, <<6000, 0>>, <<-6000, 0>>>>,
     <<<<6000, 0>>, <<0, 0>>, <<-6000, 0>>>>,
     <<<<6000, 0>>, <<0, 6000>>, <<6000, 0>>>>,
     <<<<6000, 0>>, <<6000, 0>>, <<0, 6000>>>>,
     <<<<6000, 0>>, <<0, 6000>>, <<0, 6000>>>>,
     <<<<6000, 0>>, <<6000, 0>>, <<6000, 0>>>>}
\* sweeps of arcs given to arc_to_nurbs: the least, the whole numbers of
\* quarter turns and their neighbours, in both directions
NurbsSweeps ==
    LET up == {1, ANGLE_TOLERANCE} \cup {k * QuarterTurn + d : k \in 1..4, d \in {-1, 0}}
                  \cup {k * QuarterTurn + 1 : k \in 1..3}
    IN  up \cup {-s : s \in up}
\* control polygons of 0 to 5 points, and the degrees asked for
MaxControlPoints == 5
MaxDegree == 4
ControlPolygons ==
    {[i \in 1..n |-> <<2000 * i, 2000 * (i % 2)>>] : n \in 0..MaxControlPoints}
\* rectangles on the lattice: widths and heights of both signs, zero, and
\* as small as POINT_TOLERANCE
RectangleSides == {6000, -6000, 0, POINT_TOLERANCE}
\* polygons between points with whole-number coordinates: triangles and a
\* square of both directions, and loops that enclose nothing
WholePolygons ==
    {<<<<0, 0>>, <<4, 0>>, <<0, 3>>>>,
     <<<<0, 0>>, <<0, 3>>, <<4, 0>>>>,
     <<<<1, 1>>, <<3, 1>>, <<3, 3>>, <<1, 3>>>>,
     <<<<1, 1>>, <<1, 3>>, <<3, 3>>, <<3, 1>>>>,
     <<<<0, 0>>, <<1, 0>>>>,
     <<<<0, 0>>, <<1, 1>>>>,
     <<<<1, 2>>, <<4, 6>>>>,
     <<<<0, 0>>, <<1, 2>>, <<3, 6>>>>}
SeamAngles == {-1, 0, 2 * AngleStep}
\* whole-number directions and points in space: along the axes, oblique,
\* parallel to one another and zero
PlaneDirs == {<<1, 0, 0>>, <<0, 1, 0>>, <<3, 4, 0>>, <<2, 0, 0>>, <<0, 0, 0>>}
PlanePoints == PlaneDirs \cup {<<0, 0, 2>>}
PlaneOffsets == {0, 7}
\* far points q, on one line through the origin, the third on it or beside it
FarPoints == {<<134217729, 134217729>>, <<268435458, 268435458>>,
              <<402653189, 402653189>>, <<402653187, 402653187>>}

\* points (-1.0, m * 2^-51) on either side of the negative x axis
NearPiPoints == {<<-1, m>> : m \in -3..3}

\* mid.y of the flat triples, in units of 2^-51
FlatHeights == {0, 2^9, -(2^9), 2^15, -(2^15), 2^16, -(2^16)}

\* (q2 - q1) x (q3 - q1) = 0, exactly
Collinear(q1, q2, q3) ==
    BigIsZero(BigAdd(BigMul(q2[1] - q1[1], q3[2] - q1[2]),
                     BigNeg(BigMul(q2[2] - q1[2], q3[1] - q1[1]))))

PrimResult(op, status) == [NoResult EXCEPT !.op = op, !.status = status]

\* the caller lets go of the value made
PrimDrop ==
    /\ made # NoMade
    /\ made' = NoMade
    /\ result' = Dropped
    /\ UNCHANGED <<builder, curves, current_pos, start_pos, move_count, loop, kernel>>

\* a constructor returned v for the arguments args
PrimCall(op, args, v) ==
    /\ Idle
    /\ made = NoMade
    /\ made' = [args |-> args, val |-> v.val, orig |-> v.val, revs |-> 0]
    /\ result' = PrimResult(op, v.err)
    /\ UNCHANGED <<builder, curves, current_pos, start_pos, move_count, loop, kernel>>

Arc2D_new_call(center, radius, start_angle, sweep_angle) ==
    PrimCall("Arc2D::new", <<center, radius, start_angle, sweep_angle>>,
             Arc2D_new(center, radius, start_angle, sweep_angle))

Arc2D_from_start_end_center_call(start, end, center, ccw) ==
    /\ ArcInputsExact(start, end, center)
    /\ PrimCall("Arc2D::from_start_end_center", <<start, end, center, ccw>>,
                Arc2D_from_start_end_center(start, end, center, ccw))

Arc2D_from_three_points_call(start, mid, end) ==
    /\ ThreePointInputsExact(start, mid, end)
    /\ PrimCall("Arc2D::from_three_points", <<start, mid, end>>,
                Arc2D_from_three_points(start, mid, end))

Circle2D_from_three_points_call(p1, p2, p3) ==
    /\ ThreePointInputsExact(p1, p2, p3)
    /\ PrimCall("Circle2D::from_three_points", <<p1, p2, p3>>,
                Circle2D_from_three_points(p1, p2, p3))

\* the two constructors on collinear far points FarGrid * q
Arc2D_from_far_points_call(start, mid, end, zero_sweep) ==
    /\ Collinear(start, mid, end)
    /\ PrimCall("Arc2D::from_three_points", <<FarGrid, start, mid, end>>,
                Arc2D_from_far_points(FarGrid, start, mid, end, zero_sweep))

Circle2D_from_far_points_call(p1, p2, p3) ==
    /\ Collinear(p1, p2, p3)
    /\ PrimCall("Circle2D::from_three_points", <<FarGrid, p1, p2, p3>>,
                Circle2D_from_far_points(FarGrid, p1, p2, p3))

\* from_start_end_center about the origin on points (-1.0, m * 2^-51)
Arc2D_from_start_end_near_pi_call(start, end, ccw) ==
    PrimCall("Arc2D::from_start_end_center", <<start, end, ccw>>,
             Arc2D_from_start_end_near_pi(start, end, ccw))

\* from_three_points on a flat triple; the arguments end with the binary
\* exponents of the units of x and of y
Arc2D_from_flat_points_call(x, m) ==
    PrimCall("Arc2D::from_three_points", <<(<<x, 0>>), (<<0, m>>), (<<-x, 0>>), 0, -51>>,
             Arc2D_from_flat_points(<<x, 0>>, <<0, m>>, <<-x, 0>>))

\* arc_to_nurbs about the origin of the xy plane, from the point (1, 0, 0)
arc_to_nurbs_call(sweep_angle) ==
    PrimCall("arc_to_nurbs", <<sweep_angle>>,
             Ok(arc_to_nurbs(At(<<0, 0, 0>>), <<0, 0, 1>>, At(<<1, 0, 0>>), sweep_angle)))

BSpline2D_from_control_points_call(points, degree) ==
    PrimCall("BSpline2D::from_control_points", <<points, degree>>,
             BSpline2D_from_control_points(points, degree))

BSpline2D_interpolate_call(points, degree) ==
    PrimCall("BSpline2D::interpolate", <<points, degree>>,
             BSpline2D_interpolate(points, degree))

Line2D_new_call(start, end) ==
    PrimCall("Line2D::new", <<start, end>>, Line2D_new(start, end))

Circle2D_from_center_point_call(center, point_on_circle) ==
    PrimCall("Circle2D::from_center_point", <<center, point_on_circle>>,
             Circle2D_from_center_point(center, point_on_circle))

Circle2D_from_diameter_call(p1, p2) ==
    /\ DiameterExact(p1, p2)
    /\ PrimCall("Circle2D::from_diameter", <<p1, p2>>, Circle2D_from_diameter(p1, p2))

\* a loop made on its own
LoopMade(cs) == [kind |-> "Loop", curves |-> cs]

Shapes_circle_call(center, radius) ==
    LET v == Shapes_circle(center, radius)
    IN  PrimCall("Shapes::circle", <<center, radius>>,
                 [err |-> v.status,
                  val |-> IF v.status = "Ok" THEN LoopMade(v.curves) ELSE NoCurve])

Shapes_rectangle_call(corner, width, height) ==
    LET v == Shapes_rectangle(corner, width, height)
    IN  PrimCall("Shapes::rectangle", <<corner, width, height>>,
                 [err |-> v.status,
                  val |-> IF v.status = "Ok" THEN LoopMade(v.curves) ELSE NoCurve])

\* the lines from each point of ps to the next and from the last to the first
Polygon(ps) ==
    [i \in 1..Len(ps) |-> Line2D_new_unchecked(ps[i], ps[(i % Len(ps)) + 1])]

\* Loop2D::new_unchecked on lines between points whose coordinates are whole
\* numbers (of the unit of length, not of the lattice)
WholeLoop_call(ps) ==
    PrimCall("Loop2D::new_unchecked", <<ps>>,
             Ok([kind |-> "WholeLoop", curves |-> Polygon(ps)]))

\* loop.is_ccw() on the loop of lines made
is_ccw_call ==
    /\ made.val.kind \in {"Loop", "WholeLoop"}
    /\ \A i \in 1..Len(made.val.curves) : made.val.curves[i].kind = "Line"
    /\ made' = [made EXCEPT !.val = [kind |-> "bool",
                                     is_ccw |-> Loop2D_is_ccw(made.val.curves)]]
    /\ result' = PrimResult("is_ccw", "Ok")
    /\ UNCHANGED <<builder, curves, current_pos, start_pos, move_count, loop, kernel>>

\* Loop2D::from_closed_curve(Curve2D::Circle(circle)) on the circle made
from_closed_curve_call ==
    /\ made.val.kind = "Circle"
    /\ LET v == Loop2D_from_closed_curve(made.val)
       IN  /\ made' = [made EXCEPT !.args = <<made.val>>,
                                   !.val = IF v.status = "Ok" THEN LoopMade(<<made.val>>)
                                           ELSE NoCurve]
           /\ result' = PrimResult("Loop2D::from_closed_curve", v.status)
    /\ UNCHANGED <<builder, curves, current_pos, start_pos, move_count, loop, kernel>>

\* loop.validate(tol) on the loop made
validate_call(tol) ==
    /\ made.val.kind = "Loop"
    /\ result.op # "validate"
    /\ result' = [PrimResult("validate", Loop2D_validate(made.val.curves, tol).status)
                     EXCEPT !.tol = tol]
    /\ UNCHANGED <<builder, curves, current_pos, start_pos, move_count, loop, kernel,
                   made>>

\* a plane constructor returned v
PlaneCall(op, args, v) ==
    PrimCall(op, args, [v EXCEPT !.val = [kind |-> "Plane", plane |-> v.val]])

Plane_new_call(origin, x_dir, y_dir) ==
    PlaneCall("Plane::new", <<origin, x_dir, y_dir>>, Plane_new(origin, x_dir, y_dir))

Plane_from_three_points_call(p0, p1, p2) ==
    /\ PlanePointsExact(p0, p1, p2)
    /\ PlaneCall("Plane::from_three_points", <<p0, p1, p2>>,
                 Plane_from_three_points(p0, p1, p2))

\* Plane::xy(), xz(), yz() and xy_at(z)
Plane_preset_call(z) ==
    \/ PlaneCall("Plane::xy", <<>>, Ok(Plane_xy))
    \/ PlaneCall("Plane::xz", <<>>, Ok(Plane_xz))
    \/ PlaneCall("Plane::yz", <<>>, Ok(Plane_yz))
    \/ PlaneCall("Plane::xy_at", <<z>>, Ok(Plane_xy_at(z)))

Circle2D_with_seam_call(center, radius, seam_angle, ccw) ==
    PrimCall("Circle2D::with_seam", <<center, radius, seam_angle, ccw>>,
             Circle2D_with_seam(center, radius, seam_angle, ccw))

\* circle.to_arc() on the circle made
to_arc_call ==
    /\ made.val.kind = "Circle"
    /\ made' = [args |-> <<made.val>>, val |-> Circle2D_to_arc(made.val).val,
                orig |-> Circle2D_to_arc(made.val).val, revs |-> 0]
    /\ result' = PrimResult("to_arc", "Ok")
    /\ UNCHANGED <<builder, curves, current_pos, start_pos, move_count, loop, kernel>>

\* curve.reversed() on the curve made, at most twice in a row
reversed_call ==
    /\ made.val.kind \in {"Line", "Arc", "Circle"}
    /\ made.revs < 2
    /\ made' = [args |-> <<made.val>>, val |-> Curve2D_reversed(made.val),
                orig |-> made.orig, revs |-> made.revs + 1]
    /\ result' = PrimResult("curve.reversed", "Ok")
    /\ UNCHANGED <<builder, curves, current_pos, start_pos, move_count, loop, kernel>>

PrimInit ==
    /\ builder = FALSE
    /\ curves = <<>>
    /\ current_pos = None
    /\ start_pos = None
    /\ move_count = 0
    /\ loop = NoLoop
    /\ result = Dropped
    /\ kernel \in KernelBuilds
    /\ made = NoMade

PrimNext ==
    \/ PrimDrop
    \/ /\ made = NoMade
       /\ \/ \E center \in ArcCenters, radius \in ArcRadii, start_angle \in ArcStartAngles,
                sweep_angle \in ArcSweeps :
                Arc2D_new_call(center, radius, start_angle, sweep_angle)
          \/ \E start \in ArcEnds, end \in ArcEnds, center \in ArcCenters, ccw \in BOOLEAN :
                Arc2D_from_start_end_center_call(start, end, center, ccw)
          \/ \E start \in NearPiPoints, end \in NearPiPoints, ccw \in BOOLEAN :
                Arc2D_from_start_end_near_pi_call(start, end, ccw)
          \/ \E x \in {-1, 1}, m \in FlatHeights : Arc2D_from_flat_points_call(x, m)
          \/ \E t \in Triples : Arc2D_from_three_points_call(t[1], t[2], t[3])
          \/ \E sweep_angle \in NurbsSweeps : arc_to_nurbs_call(sweep_angle)
          \/ \E width \in RectangleSides, height \in RectangleSides :
                Shapes_rectangle_call(<<0, 6000>>, width, height)
          \/ \E ps \in WholePolygons : WholeLoop_call(ps)
          \/ \E points \in ControlPolygons, degree \in 0..MaxDegree :
                BSpline2D_from_control_points_call(points, degree)
          \/ \E points \in ControlPolygons, degree \in 0..MaxDegree :
                BSpline2D_interpolate_call(points, degree)
          \/ \E t \in Triples : Circle2D_from_three_points_call(t[1], t[2], t[3])
          \/ \E start \in FarPoints, mid \in FarPoints, end \in FarPoints, zero_sweep \in BOOLEAN :
                Arc2D_from_far_points_call(start, mid, end, zero_sweep)
          \/ \E p1 \in FarPoints, p2 \in FarPoints, p3 \in FarPoints :
                Circle2D_from_far_points_call(p1, p2, p3)
          \/ \E center \in ArcCenters, radius \in ArcRadii, seam_angle \in SeamAngles,
                ccw \in BOOLEAN :
                Circle2D_with_seam_call(center, radius, seam_angle, ccw)
          \/ \E start \in ArcEnds \cup ArcCenters, end \in ArcEnds \cup ArcCenters :
                Line2D_new_call(start, end)
          \/ \E center \in ArcCenters, point_on_circle \in ArcEnds \cup ArcCenters :
                Circle2D_from_center_point_call(center, point_on_circle)
          \/ \E p1 \in ArcEnds, p2 \in ArcEnds : Circle2D_from_diameter_call(p1, p2)
          \/ \E center \in ArcCenters, radius \in ArcRadii : Shapes_circle_call(center, radius)
          \/ \E x_dir \in PlaneDirs, y_dir \in PlaneDirs : Plane_new_call(<<0, 0, 0>>, x_dir, y_dir)
          \/ \E p0 \in PlanePoints, p1 \in PlanePoints, p2 \in PlanePoints :
                Plane_from_three_points_call(p0, p1, p2)
          \/ \E z \in PlaneOffsets : Plane_preset_call(z)
    \/ to_arc_call
    \/ reversed_call
    \/ from_closed_curve_call
    \/ \E tol \in Tols : validate_call(tol)
    \/ is_ccw_call

PrimSpec == PrimInit /\ [][PrimNext]_vars

-----------------------------------------------------------------------------
(* Sketches: a sketch is made of loops that Loop2D::new, new_unchecked and *)
(* from_closed_curve return, holes are added to it, and it is converted    *)
(* and swept.  The three conversions take &self: after one of them the     *)
(* model only lets go.                                                     *)

MaxHoles == 2

\* a closed outline, a circle, an outline with a circle among its curves,
\* a single line and no curve at all
SketchLoops == {<<LineAB, LineBA>>, <<CircleB>>, <<LineTiny, CircleSeam>>, <<LineAB>>, <<>>}
HoleSeqs == UNION {[1..n -> SketchLoops] : n \in 0..MaxHoles}

Sketch(outer, holes) == [kind |-> "Sketch", holes |-> holes, outer |-> outer]

SketchHeld ==
    /\ made.val.kind = "Sketch"
    /\ result.op \notin {"to_truck_face", "extrude", "revolve"}

Sketch_new_call(outer) ==
    PrimCall("Sketch::new", <<outer>>, Ok(Sketch(outer, <<>>)))

Sketch_with_holes_call(outer, holes) ==
    PrimCall("Sketch::with_holes", <<outer, holes>>, Ok(Sketch(outer, holes)))

add_hole(hole) ==
    /\ SketchHeld
    /\ Len(made.val.holes) < MaxHoles
    /\ made' = [made EXCEPT !.val.holes = Append(@, hole)]
    /\ result' = PrimResult("add_hole", "Ok")
    /\ UNCHANGED <<builder, curves, current_pos, start_pos, move_count, loop, kernel>>

\* a conversion of the sketch held returned v
SketchResult(op, plane, v) ==
    [PrimResult(op, v.status) EXCEPT !.plane = plane, !.face = v.face, !.index = v.holes_done]

to_truck_face(plane) ==
    /\ SketchHeld
    /\ result' = SketchResult("to_truck_face", plane, Sketch_to_truck_face(made.val, plane))
    /\ UNCHANGED <<builder, curves, current_pos, start_pos, move_count, loop, kernel,
                   made>>

extrude(plane) ==
    /\ SketchHeld
    /\ result' = SketchResult("extrude", plane, Sketch_sweep(made.val, plane))
    /\ UNCHANGED <<builder, curves, current_pos, start_pos, move_count, loop, kernel,
                   made>>

revolve(plane) ==
    /\ SketchHeld
    /\ result' = SketchResult("revolve", plane, Sketch_sweep(made.val, plane))
    /\ UNCHANGED <<builder, curves, current_pos, start_pos, move_count, loop, kernel,
                   made>>

SketchNext ==
    \/ PrimDrop
    \/ \E outer \in SketchLoops : Sketch_new_call(outer)
    \/ \E outer \in SketchLoops, holes \in HoleSeqs : Sketch_with_holes_call(outer, holes)
    \/ \E hole \in SketchLoops : add_hole(hole)
    \/ \E plane \in Planes : to_truck_face(plane)
    \/ \E plane \in Planes : extrude(plane)
    \/ \E plane \in Planes : revolve(plane)

SketchSpec == PrimInit /\ [][SketchNext]_vars

-----------------------------------------------------------------------------
(* The claims *)

DrawingMethods ==
    {"line_to", "horizontal", "vertical", "line_by", "arc_to", "arc_through",
     "arc_by_angle", "quadratic_to", "cubic_to", "spline_through"}
Closers == {"close", "close_with_arc"}

\* every cyclic junction of cs, the wrap-around included, has a gap <= tol
JunctionsWithin(cs, tol) == \A i \in 0..(Len(cs) - 1) : JunctionGap2(cs, i) <= tol * tol

SetMin(S) == CHOOSE x \in S : \A y \in S : x <= y

\* C1: a drawing method called before any move_to returns NoStartingPoint
\* and leaves no curve; called after a move_to it never returns
\* NoStartingPoint (and only then can it return Ok).
C1_NoStartingPoint ==
    result.op \in DrawingMethods =>
        IF builder THEN move_count >= 1 /\ curves # <<>>
        ELSE /\ (result.status = "NoStartingPoint") <=> (result.moves = 0)
             /\ result.status = "NoStartingPoint" => result.len = 0 /\ curves = <<>>

C1_Witness ==
    /\ result.op = "arc_by_angle"
    /\ result.status = "NoStartingPoint"
    /\ result.moves = 0

\* C2: when close or close_with_arc returns Ok, the loop returned is
\* non-empty and every cyclic junction of it has a gap <= HEAL_TOLERANCE, so
\* validate(HEAL_TOLERANCE) is Ok; curves whose junctions are not all within
\* HEAL_TOLERANCE give Err(OpenLoop) and no loop.
C2_CloseValidates ==
    result.op \in Closers =>
        /\ result.status = "Ok" =>
               /\ loop = Loop2D(result.before)
               /\ loop.curves # <<>>
               /\ JunctionsWithin(loop.curves, HEAL_TOLERANCE)
               /\ Loop2D_validate(loop.curves, HEAL_TOLERANCE).status = "Ok"
        /\ result.status # "Ok" => loop = NoLoop
        /\ (result.before # <<>> /\ ~JunctionsWithin(result.before, HEAL_TOLERANCE)) =>
               result.status = "OpenLoop"

\* a loop closed after a second move_to, with a junction that is not exact
C2_Witness ==
    /\ result.op = "close"
    /\ result.status = "Ok"
    /\ result.moves = 2
    /\ Len(loop.curves) >= 2
    /\ \E i \in 0..(Len(loop.curves) - 1) : JunctionGap2(loop.curves, i) > 0

\* the builder closed had seen one move_to and held k >= 1 curves, all lines
LineRun ==
    /\ result.op = "close"
    /\ result.moves = 1
    /\ result.len >= 1
    /\ Len(result.before) >= result.len
    /\ \A i \in 1..result.len : result.before[i].kind = "Line"

\* C3: one move_to, k >= 1 line-drawing calls, close(): close returns Ok,
\* the loop passes validate(POINT_TOLERANCE), consecutive drawn lines meet
\* with gap exactly 0 and the closing junction has a gap <= POINT_TOLERANCE.
C3_LineRunCloses ==
    LineRun =>
        /\ result.status = "Ok"
        /\ loop = Loop2D(result.before)
        /\ Loop2D_validate(loop.curves, POINT_TOLERANCE).status = "Ok"
        /\ \A i \in 1..(result.len - 1) :
               CurveEnd(result.before[i]) = CurveStart(result.before[i + 1])
        /\ JunctionGap2(loop.curves, Len(loop.curves) - 1)
               <= POINT_TOLERANCE * POINT_TOLERANCE

\* two lines closed without a closing line, over a closing gap that is not 0
C3_Witness ==
    /\ LineRun
    /\ result.status = "Ok"
    /\ result.len = 2
    /\ Len(loop.curves) = 2
    /\ JunctionGap2(loop.curves, 1) > 0

\* C7: close and close_with_arc return CannotCloseEmpty exactly when the
\* builder holds no curve, move_to called or not (before any move_to the
\* error is CannotCloseEmpty, not NoStartingPoint).
C7_CannotCloseEmpty ==
    result.op \in Closers =>
        /\ (result.status = "CannotCloseEmpty") <=> (result.len = 0)
        /\ result.status = "CannotCloseEmpty" => loop = NoLoop

\* close_with_arc on a new builder, before any move_to
C7_Witness ==
    /\ result.op = "close_with_arc"
    /\ result.status = "CannotCloseEmpty"
    /\ result.moves = 0

\* C4: Loop2D::new(curves) returns Ok exactly when curves is non-empty and
\* every cyclic junction (for one curve, its own end to its own start; the
\* wrap-around junction included) has a gap <= HEAL_TOLERANCE; empty curves
\* give EmptyLoop; without Ok there is no loop.
C4_NewIffInvariant ==
    result.op = "Loop2D::new" =>
        LET cs == result.before
        IN  /\ (result.status = "Ok") <=>
                   (cs # <<>> /\ JunctionsWithin(cs, HEAL_TOLERANCE))
            /\ cs = <<>> => result.status = "EmptyLoop"
            /\ loop = IF result.status = "Ok" THEN Loop2D(cs) ELSE NoLoop

\* two curves refused for their wrap-around junction alone
C4_Witness ==
    /\ result.op = "Loop2D::new"
    /\ result.status = "OpenLoop"
    /\ Len(result.before) = 2
    /\ JunctionGap2(result.before, 0) <= HEAL_TOLERANCE * HEAL_TOLERANCE
    /\ JunctionGap2(result.before, 1) > HEAL_TOLERANCE * HEAL_TOLERANCE

\* C5: validate(tol) on n curves: EmptyLoop for n = 0; otherwise Ok when no
\* junction gap exceeds tol, and else OpenLoop with the smallest index whose
\* junction gap exceeds tol and that junction's gap (for n = 1, index 0 and
\* the curve's own start-end gap); the loop is as it was.
C5_ValidateFirstOffender ==
    result.op = "validate" =>
        LET cs == loop.curves
            n == Len(cs)
            bad == {i \in 0..(n - 1) : JunctionGap2(cs, i) > result.tol * result.tol}
        IN  /\ loop = Loop2D(result.before)
            /\ n = 0 => result.status = "EmptyLoop"
            /\ (n >= 1 /\ bad = {}) => result.status = "Ok"
            /\ (n >= 1 /\ bad # {}) =>
                   /\ result.status = "OpenLoop"
                   /\ result.index = SetMin(bad)
                   /\ result.gap2 = JunctionGap2(cs, SetMin(bad))
                   /\ n = 1 => result.index = 0 /\ result.gap2 = ClosureGap2(cs[1])

\* both junctions of a two-curve loop exceed tol, with different gaps
C5_Witness ==
    /\ result.op = "validate"
    /\ result.status = "OpenLoop"
    /\ Len(loop.curves) = 2
    /\ JunctionGap2(loop.curves, 0) > result.tol * result.tol
    /\ JunctionGap2(loop.curves, 1) > result.tol * result.tol
    /\ JunctionGap2(loop.curves, 0) # JunctionGap2(loop.curves, 1)

\* the junctions of the loop before heal_gaps(tol) whose gap was in
\* (POINT_TOLERANCE, tol] and whose successor now starts at the end of curve i
HealedJunctions ==
    LET was == result.before
        now == loop.curves
        n == Len(was)
    IN  {i \in 0..(n - 1) :
            /\ JunctionGap2(was, i) > POINT_TOLERANCE * POINT_TOLERANCE
            /\ JunctionGap2(was, i) <= result.tol * result.tol
            /\ CurveStart(now[((i + 1) % n) + 1]) = CurveEnd(now[i + 1])}

\* C6: heal_gaps(tol) returns the number of junctions whose gap was in
\* (POINT_TOLERANCE, tol] and whose successor's start coincides with the end
\* of curve i afterwards (a successor that is no line is not healed and not
\* counted); with fewer than 2 curves it returns 0.
C6_HealCountsHealed ==
    result.op = "heal_gaps" =>
        IF Len(result.before) < 2 THEN result.healed = 0
        ELSE result.healed = Cardinality(HealedJunctions)

\* heal_gaps counted a junction whose successor, an arc, it did not move
C6_Witness ==
    /\ result.op = "heal_gaps"
    /\ Len(result.before) = 2
    /\ result.healed > Cardinality(HealedJunctions)
    /\ \E i \in 1..2 : loop.curves[i].kind = "Arc"

\* the result is that of to_truck_wire on a loop of more than one curve, none a circle
MultiCurveWire ==
    /\ result.op = "to_truck_wire"
    /\ Len(result.before) > 1
    /\ \A i \in 1..Len(result.before) : result.before[i].kind # "Circle"

\* C8: for a loop of n > 1 curves without a circle to_truck_wire makes n
\* vertices, vertex i at the lifted start of curve i, and n edges in curve
\* order, edge i from vertex i to vertex (i + 1) mod n: each edge ends at
\* the vertex the next edge starts at and the last edge ends at vertex 0.
C8_SharedVertices ==
    MultiCurveWire =>
        LET cs == result.before
            n == Len(cs)
            wire == result.wire
        IN  /\ result.status = "Ok"
            /\ Len(wire.vertices) = n
            /\ \A i \in 1..n :
                   wire.vertices[i] = At(lift_point(result.plane, CurveStart(cs[i])))
            /\ Len(wire.edges) = n
            /\ \A i \in 1..n :
                   /\ wire.edges[i].front = i
                   /\ wire.edges[i].back = (i % n) + 1
                   /\ wire.edges[i].back = wire.edges[(i % n) + 1].front
            /\ wire.edges[n].back = 1

\* a wire over a junction that is not exact: the vertex there is the
\* successor's start, not the end of the curve before it
C8_Witness ==
    /\ MultiCurveWire
    /\ result.status = "Ok"
    /\ result.plane = Plane_xz
    /\ \E i \in 1..Len(result.before) : result.before[i].kind = "Arc"
    /\ JunctionGap2(result.before, 0) > 0

\* C9: to_truck_wire does not return OpenLoop for a validated loop (curves
\* non-empty, every cyclic junction within HEAL_TOLERANCE), a loop of one
\* closed curve that is no circle included.
C9_NoOpenLoopOnValidated ==
    (/\ result.op = "to_truck_wire"
     /\ result.before # <<>>
     /\ JunctionsWithin(result.before, HEAL_TOLERANCE)) =>
        result.status # "OpenLoop"

\* the arc of a full turn, start = end, refused as an open loop
C9_Witness ==
    /\ result.op = "to_truck_wire"
    /\ result.before = <<ArcFull>>
    /\ ClosureGap2(ArcFull) = 0
    /\ result.status = "OpenLoop"

\* the point a half-turn arc built by arc_to_nurbs ends at: center - (start - center)
HalfTurnEnd(nurbs) ==
    IF nurbs.start.dist = 0
    THEN At(Sub3(Scale3(2, nurbs.center.base), nurbs.start.base))
    ELSE AlongUnit(nurbs.start.base, Scale3(-1, nurbs.start.dir), nurbs.start.dist)

\* the result is that of to_truck_wire on a loop whose one curve is a circle
CircleWire ==
    /\ result.op = "to_truck_wire"
    /\ Len(result.before) = 1
    /\ result.before[1].kind = "Circle"

\* C10: a loop of one circle becomes a wire of two edges over two vertices,
\* v0 at the lifted seam point and v1 at the lifted antipodal point
\* center - (start - center); edge 1 runs v0 -> v1 and edge 2 v1 -> v0, both
\* with sweep +PI for a ccw circle and -PI otherwise, and the second edge
\* ends where the first began.
C10_CircleWire ==
    CircleWire =>
        LET circle == result.before[1]
            start == Circle2D_start(circle)
            antipode == Sub(circle.center, Sub(start, circle.center))
            wire == result.wire
            half_sweep == IF circle.ccw THEN PI ELSE -PI
        IN  /\ result.status = "Ok"
            /\ Len(wire.vertices) = 2
            /\ Len(wire.edges) = 2
            /\ wire.vertices[1] = At(lift_point(result.plane, start))
            /\ wire.vertices[2] = At(lift_point(result.plane, antipode))
            /\ wire.edges[1].front = 1 /\ wire.edges[1].back = 2
            /\ wire.edges[2].front = 2 /\ wire.edges[2].back = 1
            /\ wire.edges[1].curve.sweep_angle = half_sweep
            /\ wire.edges[2].curve.sweep_angle = half_sweep
            /\ HalfTurnEnd(wire.edges[1].curve) = wire.vertices[2]
            /\ HalfTurnEnd(wire.edges[2].curve) = wire.vertices[1]

\* on a plane whose axes are not perpendicular, a circle with its seam off
\* the axes: the second vertex is not the lifted antipodal point
C10_Witness ==
    /\ CircleWire
    /\ result.status = "Ok"
    /\ result.wire.vertices[2]
          # At(lift_point(result.plane,
                          Sub(result.before[1].center,
                              Sub(Circle2D_start(result.before[1]), result.before[1].center))))

\* the result is that of to_truck_wire on a loop of more than one curve, a circle among them
CircleAmongCurves ==
    /\ result.op = "to_truck_wire"
    /\ Len(result.before) > 1
    /\ \E i \in 1..Len(result.before) : result.before[i].kind = "Circle"

\* C11: to_truck_wire on a loop of n > 1 curves with a circle at any
\* position returns the TruckEdgeError and no wire, although such a loop
\* can be one that Loop2D::new accepts.
C11_CircleInMultiCurveLoop ==
    CircleAmongCurves =>
        /\ result.status = "TruckEdgeError"
        /\ result.wire = NoWire

\* a loop Loop2D::new accepts, a line followed by a circle, is refused
C11_Witness ==
    /\ CircleAmongCurves
    /\ result.before[1].kind = "Line"
    /\ result.before[2].kind = "Circle"
    /\ Loop2D_new(result.before).status = "Ok"
    /\ result.status = "TruckEdgeError"

\* the value made is an arc
ArcMade == made.val.kind = "Arc"

\* the invariant of Arc2D, all but the upper end of the start angle's range
ArcWithinBounds(arc) ==
    /\ arc.radius > 0 /\ ~BelowDegenerate(arc.radius)
    /\ ANGLE_TOLERANCE <= Abs(arc.sweep_angle) /\ Abs(arc.sweep_angle) <= TAU
    /\ 0 <= arc.start_angle

\* what Arc2D::new returns for its arguments: the radius check first, then
\* the sweep check, then the sweep clamped to a full turn of the sign asked for
ArcNewAsSpecified ==
    result.op = "Arc2D::new" =>
        LET radius == made.args[2]
            sweep == made.args[4]
        IN  /\ (result.status = "InvalidArcRadius") <=> BelowDegenerate(radius)
            /\ (result.status = "ZeroSweepAngle")
                  <=> (~BelowDegenerate(radius) /\ Abs(sweep) < ANGLE_TOLERANCE)
            /\ result.status \in {"InvalidArcRadius", "ZeroSweepAngle", "Ok"}
            /\ result.status = "Ok" <=> ArcMade
            /\ ArcMade =>
                  made.val.sweep_angle = IF sweep > TAU THEN TAU
                                         ELSE IF sweep < -TAU THEN -TAU ELSE sweep

\* C12: every Arc2D made by Arc2D::new, from_start_end_center,
\* from_three_points, Circle2D::to_arc or reversed() has radius >
\* DEGENERATE_TOLERANCE, ANGLE_TOLERANCE <= |sweep_angle| <= 2*pi and
\* 0 <= start_angle < 2*pi; Arc2D::new clamps a sweep beyond a full turn to
\* +-2*pi of the sign asked for and checks the radius before the sweep.
C12_ArcInvariant ==
    /\ ArcMade => ArcWithinBounds(made.val) /\ made.val.start_angle < TAU
    /\ ArcNewAsSpecified

\* an arc whose start angle is 2*pi: Arc2D::new was given a start angle a
\* unit below zero
C12_Witness ==
    /\ result.op = "Arc2D::new"
    /\ ArcMade
    /\ made.args[3] < 0 /\ made.args[3] > -ANGLE_TOLERANCE
    /\ made.val.start_angle = TAU

\* C13: Arc2D::from_three_points and Circle2D::from_three_points return
\* Err(CollinearPoints) for every collinear triple, coincident points
\* included; they fail on the same triples and find the same centre on the
\* others.
ThreePointCall ==
    /\ made # NoMade
    /\ Len(made.args) <= 4
    /\ result.op \in {"Arc2D::from_three_points", "Circle2D::from_three_points"}

FarCall == ThreePointCall /\ Len(made.args) = 4

TripleCalled == IF FarCall THEN Tail(made.args) ELSE made.args

ConstructorsAgree ==
    IF FarCall
    THEN \A zero_sweep \in BOOLEAN :
            (Arc2D_from_far_points(made.args[1], made.args[2], made.args[3], made.args[4],
                                   zero_sweep).err = "CollinearPoints")
            <=> (Circle2D_from_far_points(made.args[1], made.args[2], made.args[3],
                                          made.args[4]).err = "CollinearPoints")
    ELSE LET arc == Arc2D_from_three_points(made.args[1], made.args[2], made.args[3])
             circle == Circle2D_from_three_points(made.args[1], made.args[2], made.args[3])
         IN  /\ arc.ok <=> circle.ok
             /\ arc.err = "CollinearPoints" <=> circle.err = "CollinearPoints"
             /\ arc.ok => arc.val.center = circle.val.center

C13_CollinearTriples ==
    ThreePointCall =>
        /\ Collinear(TripleCalled[1], TripleCalled[2], TripleCalled[3])
              => result.status = "CollinearPoints" /\ made.val = NoCurve
        /\ ConstructorsAgree

C13_Witness ==
    /\ FarCall
    /\ result.op = "Circle2D::from_three_points"
    /\ Collinear(TripleCalled[1], TripleCalled[2], TripleCalled[3])
    /\ TripleCalled[1] # TripleCalled[2]
    /\ TripleCalled[2] # TripleCalled[3]
    /\ result.status = "Ok"
    /\ made.val.kind = "FarCircle"

\* C14: every Plane from new, xy, xz, yz, xy_at and from_three_points has
\* unit x_dir and y_dir that are not collinear; Plane::new with collinear or
\* zero directions and Plane::from_three_points with collinear or
\* coincident points return Err(DegeneratePlane).
PlaneMade == made.val.kind = "Plane"

\* v, carried times 5, has length one
UnitDir(v) == v # NaN3 /\ Mag3sq(v) = 25

WellFormedPlane(plane) ==
    /\ UnitDir(plane.x_dir)
    /\ UnitDir(plane.y_dir)
    /\ ~BelowDegenerate(Mag3sq(Cross(plane.x_dir, plane.y_dir)))

\* no plane through the arguments of the call
DegenerateArgs ==
    \/ /\ result.op = "Plane::new"
       /\ Mag3sq(Cross(made.args[2], made.args[3])) = 0
    \/ /\ result.op = "Plane::from_three_points"
       /\ Mag3sq(Cross(Sub3(made.args[2], made.args[1]), Sub3(made.args[3], made.args[1]))) = 0

C14_PlanesWellFormed ==
    /\ (PlaneMade /\ result.status = "Ok") => WellFormedPlane(made.val.plane)
    /\ (PlaneMade /\ DegenerateArgs) => result.status = "DegeneratePlane"

C14_Witness ==
    /\ PlaneMade
    /\ result.op = "Plane::from_three_points"
    /\ DegenerateArgs
    /\ made.args[1] # made.args[2]
    /\ result.status = "Ok"
    /\ made.val.plane.y_dir = NaN3

\* C15: every Circle2D has start() = end() and is_closed(tol) for every tol,
\* zero included; Loop2D::from_closed_curve of a circle succeeds and the
\* loop passes validate(tol) for every tol >= 0; the circle constructors
\* fail, with InvalidCircleRadius, exactly when the radius is at most
\* DEGENERATE_TOLERANCE, and Shapes::circle is Ok exactly when it is above.
CircleMade == made.val.kind = "Circle"

CircleLoopMade ==
    /\ made.val.kind = "Loop"
    /\ Len(made.val.curves) = 1
    /\ made.val.curves[1].kind = "Circle"

C15_CircleClosed ==
    /\ CircleMade =>
          /\ Circle2D_start(made.val) = Circle2D_end(made.val)
          /\ \A tol \in Tols : Circle2D_is_closed(made.val, tol)
          /\ ~BelowDegenerate(made.val.radius)
    /\ (result.op = "Loop2D::from_closed_curve" /\ made.args[1].kind = "Circle")
          => result.status = "Ok" /\ CircleLoopMade
    /\ (result.op = "validate" /\ CircleLoopMade) => result.status = "Ok"
    /\ result.op \in {"Circle2D::with_seam", "Shapes::circle"} =>
          /\ result.status = "InvalidCircleRadius" <=> made.args[2] < DEGENERATE_TOLERANCE
          /\ result.status = "Ok" <=> made.args[2] >= DEGENERATE_TOLERANCE
    /\ result.op \in {"Circle2D::from_center_point", "Circle2D::from_diameter"} =>
          /\ result.status = "InvalidCircleRadius" <=> made.args[1] = made.args[2]
          /\ result.status = "Ok" <=> made.args[1] # made.args[2]

C15_Witness ==
    /\ result.op = "validate"
    /\ result.tol = 0
    /\ result.status = "Ok"
    /\ CircleLoopMade
    /\ made.val.curves[1].seam_angle # 0

\* C16: for a Line2D, an Arc2D or a Circle2D c, c.reversed() starts where c
\* ends, ends where c starts and has the length of c, and
\* c.reversed().reversed() has the start, the end and the length of c; an
\* arc reversed twice has its sweep again and its start angle up to whole
\* turns, a circle reversed keeps its seam and flips ccw.
ReversedOnce == made.revs = 1 /\ result.op = "curve.reversed"
ReversedTwice == made.revs = 2 /\ result.op = "curve.reversed"

Converted == made.val.kind = "Sketch" /\ result.op \in {"to_truck_face", "extrude", "revolve"}

\* the status of each step taken on its own, in the order of the claim
PlaneStep == Plane_to_truck_plane(result.plane).err
OuterStep == to_truck_wire(made.val.outer, result.plane).status
FaceStep == Face_try_new(to_truck_wire(made.val.outer, result.plane).wire).err
HoleStep(i) == to_truck_wire(made.val.holes[i], result.plane).status

\* the first hole whose wire fails, 0 when none does
FirstBadHole ==
    IF \A i \in 1..Len(made.val.holes) : HoleStep(i) = "Ok" THEN 0
    ELSE CHOOSE i \in 1..Len(made.val.holes) :
            HoleStep(i) # "Ok" /\ \A j \in 1..(i - 1) : HoleStep(j) = "Ok"

FirstFailure ==
    IF PlaneStep # "Ok" THEN PlaneStep
    ELSE IF OuterStep # "Ok" THEN OuterStep
    ELSE IF FaceStep # "Ok" THEN "TruckFaceError"
    ELSE IF FirstBadHole # 0 THEN HoleStep(FirstBadHole)
    ELSE "Ok"

C17_FirstFailure ==
    Converted =>
        /\ result.status = FirstFailure
        /\ result.status # "Ok" => result.face = NoFace
        /\ (PlaneStep = "Ok" /\ OuterStep = "Ok" /\ FaceStep = "Ok" /\ FirstBadHole # 0)
              => result.index = FirstBadHole - 1
        /\ result.status = "Ok" =>
              /\ Len(result.face.boundaries) = 1 + Len(made.val.holes)
              /\ result.face.boundaries[1] = to_truck_wire(made.val.outer, result.plane).wire
        /\ result.status = Sketch_to_truck_face(made.val, result.plane).status

C17_Witness ==
    /\ Converted
    /\ result.op = "extrude"
    /\ Len(made.val.holes) = 2
    /\ HoleStep(1) = "Ok"
    /\ HoleStep(2) = "TruckEdgeError"
    /\ result.status = "TruckEdgeError"
    /\ result.index = 1

\* C18: once a validating constructor has returned a Loop2D, no public
\* operation other than heal_gaps changes its curve sequence or the geometry
\* of a curve in it.  (reversed() returns a copy, which the model then
\* holds in place of the loop: the step is left out as heal_gaps is.)
ValidatedLoop == loop.live /\ Loop2D_new(loop.curves).status = "Ok"

C18_OnlyHealMutates ==
    [][(ValidatedLoop /\ loop'.live /\ result'.op \notin {"heal_gaps", "reversed"})
          => loop'.curves = loop.curves]_vars

C18_Witness ==
    /\ result.op = "reverse"
    /\ loop.live
    /\ Loop2D_new(result.before).status = "Ok"
    /\ Len(result.before) = 2
    /\ loop.curves # result.before
    /\ loop.curves[1].kind = "Line"

\* C19: in every state reached through SketchBuilder drawing calls, close(),
\* heal_gaps and reverse/reversed, every Line2D held by the builder or by a
\* loop has end points that do not coincide: its length is at least
\* DEGENERATE_TOLERANCE.
LinesNotDegenerate(cs) ==
    \A i \in 1..Len(cs) : cs[i].kind = "Line" => ~Line2D_is_degenerate(cs[i])

C19_LinesNotDegenerate == LinesNotDegenerate(curves) /\ LinesNotDegenerate(loop.curves)

C19_Witness ==
    /\ loop.live
    /\ result.op = "heal_gaps"
    /\ result.healed > 0
    /\ LinesNotDegenerate(result.before)
    /\ \E i \in 1..Len(loop.curves) :
          /\ loop.curves[i].kind = "Line"
          /\ loop.curves[i].start = loop.curves[i].end
          /\ result.before[i].end = loop.curves[i].end

\* a close() step on a builder that holds curves and both positions
CloseStep == builder /\ curves # <<>> /\ result'.op = "close"

\* the squared distance between the current and the start position
CloseGap2 ==
    (current_pos[1] - start_pos[1]) * (current_pos[1] - start_pos[1])
        + (current_pos[2] - start_pos[2]) * (current_pos[2] - start_pos[2])

\* C20: close() hands Loop2D::new the accumulated curves in drawing order,
\* followed by exactly one closing Line2D from the current position to the
\* start position when |current - start| > POINT_TOLERANCE and by nothing
\* otherwise; the loop returned holds exactly these curves, so it has
\* curve_count() + 1 curves in the first case and curve_count() in the
\* second, and the closing line is the last curve and ends at the start
\* position.
C20_ClosingLine ==
    [][CloseStep =>
          LET n == Len(curves)
              cs == result'.before
          IN  /\ result'.len = n
              /\ result'.status = "Ok" => loop'.live /\ loop'.curves = cs
              /\ IF CloseGap2 > POINT_TOLERANCE * POINT_TOLERANCE
                 THEN /\ Len(cs) = n + 1
                      /\ SubSeq(cs, 1, n) = curves
                      /\ cs[n + 1].kind = "Line"
                      /\ cs[n + 1].start = current_pos
                      /\ cs[n + 1].end = start_pos
                 ELSE cs = curves]_vars

\* a loop returned by close() with the closing line after two drawn curves,
\* the pen having jumped in between
C20_Witness ==
    /\ result.op = "close"
    /\ result.status = "Ok"
    /\ result.len = 2
    /\ result.moves = 2
    /\ loop.live
    /\ Len(loop.curves) = 3
    /\ loop.curves[3].kind = "Line"
    /\ loop.curves[3].start = CurveEnd(loop.curves[2])
    /\ loop.curves[3].start # loop.curves[3].end

\* heal_gaps(tol) was the last call, on a loop of n curves
Healed == result.op = "heal_gaps" /\ loop.live

\* the curve before curve k (1-based) in the cyclic order
Pred(k, n) == ((k + n - 2) % n) + 1

\* the junction before curve k of cs has a gap in (POINT_TOLERANCE, tol]
GapInRange(cs, k, tol) ==
    LET d == Sub(CurveEnd(cs[Pred(k, Len(cs))]), CurveStart(cs[k]))
        g2 == d[1] * d[1] + d[2] * d[2]
    IN  /\ Len(cs) >= 2
        /\ g2 > POINT_TOLERANCE * POINT_TOLERANCE
        /\ g2 <= tol * tol

\* C21: heal_gaps(tol) keeps the number, order and kind of the curves and
\* every end point; the only curves it changes are the Line2D curves that
\* succeed a junction with gap in (POINT_TOLERANCE, tol], whose start is
\* moved onto the predecessor's end; every other curve (a junction gap
\* <= POINT_TOLERANCE or > tol before it, or an Arc2D, Circle2D or
\* BSpline2D) is left identical.
C21_HealFrame ==
    Healed =>
        LET before == result.before
            after == loop.curves
            n == Len(before)
        IN  /\ Len(after) = n
            /\ \A k \in 1..n :
                  /\ after[k].kind = before[k].kind
                  /\ CurveEnd(after[k]) = CurveEnd(before[k])
                  /\ IF before[k].kind = "Line" /\ GapInRange(before, k, result.tol)
                     THEN after[k] = [kind |-> "Line",
                                      start |-> CurveEnd(before[Pred(k, n)]),
                                      end |-> before[k].end]
                     ELSE after[k] = before[k]

\* a line was moved by the healing, and the curve before it was left as
\* it was although the gap before it was in the range too
C21_Witness ==
    /\ Healed
    /\ Len(loop.curves) = 2
    /\ loop.curves[2] # result.before[2]
    /\ loop.curves[1] = result.before[1]
    /\ result.before[1].kind = "Arc"
    /\ GapInRange(result.before, 1, result.tol)

Reversals == {"reverse", "reversed"}

\* reverse() or reversed() was the last call
Reversal == result.op \in Reversals /\ loop.live

\* the number of cyclic junctions of cs whose squared gap is g
GapCount(cs, g) == Cardinality({i \in 0..(Len(cs) - 1) : JunctionGap2(cs, i) = g})

GapValues(cs) == {JunctionGap2(cs, i) : i \in 0..(Len(cs) - 1)}

\* as and bs have the same kinds of curves with the same end points, in order
SameEndPoints(as, bs) ==
    /\ Len(as) = Len(bs)
    /\ \A k \in 1..Len(as) :
          /\ as[k].kind = bs[k].kind
          /\ CurveStart(as[k]) = CurveStart(bs[k])
          /\ CurveEnd(as[k]) = CurveEnd(bs[k])

\* what holds of the loop after one reversal of L = result.before
ReversedLoop ==
    Reversal =>
        LET L == result.before
            R == loop.curves
            n == Len(L)
        IN  /\ Len(R) = n
            /\ Loop2D_reverse(L) = Loop2D_reversed(L)
            /\ \A k \in 1..n :
                  /\ R[k] = Curve2D_reversed(L[n + 1 - k])
                  /\ CurveStart(R[k]) = CurveEnd(L[n + 1 - k])
                  /\ CurveEnd(R[k]) = CurveStart(L[n + 1 - k])
            /\ \A g \in GapValues(L) \cup GapValues(R) : GapCount(R, g) = GapCount(L, g)
            /\ \A tol \in Tols :
                  (Loop2D_validate(R, tol).status = "Ok")
                      <=> (Loop2D_validate(L, tol).status = "Ok")

\* a reversal of the loop that the last reversal returned
SecondReversal ==
    /\ Reversal
    /\ result'.op \in Reversals
    /\ loop'.live
    /\ result'.before = loop.curves

SweepCall == result.op = "Arc2D::from_start_end_center" /\ Len(made.args) = 4
SweepCallNearPi == result.op = "Arc2D::from_start_end_center" /\ Len(made.args) = 3

\* the sweep s has the sign asked for, is a full turn at most, and differs
\* from the difference d of the angles by a whole number of turns
SweepInRange(s, d, ccw) ==
    /\ (s - d) % TAU = 0
    /\ ccw => 0 < s /\ s <= TAU
    /\ ~ccw => -TAU <= s /\ s < 0

\* the same on angles in units of 2^-51
SweepInRangeF64(s, ccw) ==
    /\ ~BigMagLess(TauF64, s)
    /\ ccw => BigPositive(s)
    /\ ~ccw => BigNegative(s)

\* d with a turn added (ccw) or taken (cw), as f64 has it
TurnF64(d, ccw) == F64Add(d, IF ccw THEN TauF64 ELSE BigNeg(TauF64))

\* d after at most n steps of the loop
RECURSIVE AfterSteps(_, _, _)
AfterSteps(d, ccw, n) ==
    IF n = 0 THEN {d} ELSE {d} \cup AfterSteps(TurnF64(d, ccw), ccw, n - 1)

\* from_start_end_center on lattice points: the sweep computed is in range
\* and congruent to the difference of the angles, it is the difference or
\* one turn from it, coincident points give a full turn, and the arc
\* built has this sweep, starts at start and ends at end
SweepOnLattice ==
    SweepCall =>
        LET start == made.args[1]
            end == made.args[2]
            center == made.args[3]
            ccw == made.args[4]
            sa == Atan2(start[2] - center[2], start[1] - center[1])
            ea == Atan2(end[2] - center[2], end[1] - center[1])
            s == compute_sweep_angle(sa, ea, ccw)
        IN  /\ -PI < sa /\ sa <= PI /\ -PI < ea /\ ea <= PI
            /\ SweepInRange(s, ea - sa, ccw)
            /\ s \in {ea - sa, ea - sa + (IF ccw THEN TAU ELSE -TAU)}
            /\ sa = ea => s = (IF ccw THEN TAU ELSE -TAU)
            /\ result.status # "ZeroSweepAngle"
            /\ ArcMade =>
                  /\ made.val.sweep_angle = s
                  /\ ~GapExceeds(Arc2D_start(made.val), start, LENGTH_TOLERANCE)
                  /\ ~GapExceeds(Arc2D_end(made.val), end, LENGTH_TOLERANCE)
                  /\ Mag2(Sub(start, center)) = Mag2(Sub(end, center)) =>
                        Arc2D_start(made.val) = start /\ Arc2D_end(made.val) = end

\* the same next to the negative x axis, the loop taking at most n steps
SweepNearPi(n) ==
    SweepCallNearPi =>
        LET sa == Atan2NearPi(made.args[1])
            ea == Atan2NearPi(made.args[2])
            ccw == made.args[3]
            s == compute_sweep_angle_f64(sa, ea, ccw)
        IN  /\ BigMagLess(sa, PiF64) \/ sa = PiF64
            /\ BigMagLess(ea, PiF64) \/ ea = PiF64
            /\ SweepInRangeF64(s, ccw)
            /\ s \in AfterSteps(F64Add(ea, BigNeg(sa)), ccw, n)
            /\ sa = ea => s = (IF ccw THEN TauF64 ELSE BigNeg(TauF64))
            /\ made.val.kind = "F64Arc" => made.val.sweep_angle = s

\* C23 as stated: from_start_end_center computes, for start and end angles
\* in (-PI, PI], a sweep congruent to end_angle - start_angle modulo TAU,
\* with 0 < s <= TAU for ccw and -TAU <= s < 0 for cw; the arc built ends at
\* the requested end point, coincident start and end give a full turn, and
\* the loop that adds or takes TAU ends after at most one step.
C23_SweepOneStep == SweepOnLattice /\ SweepNearPi(1)

\* C23 amended: the same, the loop ending after at most two steps: next to
\* the negative x axis the difference of the angles can round to a full
\* turn of the wrong sign, which the first step turns into 0 and the second
\* into a full turn of the sign asked for.
C23_SweepTwoSteps == SweepOnLattice /\ SweepNearPi(2)

\* start just above the negative x axis, end just below it, ccw: the
\* difference rounds to -TAU and the sweep returned is TAU after two steps
C23_Witness ==
    /\ SweepCallNearPi
    /\ made.args = <<(<<-1, 0>>), (<<-1, -1>>), TRUE>>
    /\ result.status = "Ok"
    /\ made.val.sweep_angle = TauF64
    /\ F64Add(Atan2NearPi(made.args[2]), BigNeg(Atan2NearPi(made.args[1]))) = BigNeg(TauF64)

\* from_three_points was called on a lattice triple / on a flat triple
ThroughMidCall ==
    /\ made # NoMade
    /\ result.op = "Arc2D::from_three_points"
    /\ Len(made.args) = 3

ThroughMidCallFlat ==
    /\ made # NoMade
    /\ result.op = "Arc2D::from_three_points"
    /\ Len(made.args) = 5

\* the arc built on a lattice triple starts at start's angle, ends at end,
\* has its centre at equal distance from the three points, and sweeps less
\* than a turn, by the difference of the angles up to whole turns, in the
\* direction in which mid comes before end, mid lying strictly inside
ThroughMidOnLattice ==
    LET start == made.args[1]
        mid == made.args[2]
        end == made.args[3]
        c == circumcenter(start, mid, end).val
        sa == Atan2(start[2] - c[2], start[1] - c[1])
        ma == Atan2(mid[2] - c[2], mid[1] - c[1])
        ea == Atan2(end[2] - c[2], end[1] - c[1])
        s_to_m == (ma - sa) % TAU
        s_to_e == (ea - sa) % TAU
        arc == made.orig
    IN  /\ result.status = "Ok"
        /\ arc.kind = "Arc"
        /\ arc.center = c
        /\ Mag2(Sub(start, c)) = Mag2(Sub(mid, c))
        /\ Mag2(Sub(start, c)) = Mag2(Sub(end, c))
        /\ arc.start_angle = sa % TAU
        /\ Arc2D_start(arc) = start
        /\ Arc2D_end(arc) = end
        /\ arc.sweep_angle # 0
        /\ Abs(arc.sweep_angle) < TAU
        /\ (arc.sweep_angle - (ea - sa)) % TAU = 0
        /\ arc.sweep_angle > 0 <=> s_to_m < s_to_e
        /\ 0 < s_to_m
        /\ arc.sweep_angle > 0 => s_to_m < arc.sweep_angle
        /\ arc.sweep_angle < 0 => TAU - s_to_m < -arc.sweep_angle

\* x - y, exactly
BigDiff(x, y) == BigAdd(x, BigNeg(y))

\* the same on a flat triple, whose angles lie within a quarter turn's
\* neighbourhood: the sweep is the difference of the angles of end and start
\* exactly, and mid's angle lies strictly between theirs
ThroughMidOnFlat ==
    LET x == made.args[1][1]
        m == made.args[2][2]
        sa == FlatAngle(x, m)
        ma == FlatAngle(0, m)
        ea == FlatAngle(-x, m)
        arc == made.orig
    IN  /\ result.status = "Ok"
        /\ arc.kind = "F64Arc"
        /\ arc.start_angle = normalize_angle_f64(sa)
        /\ ~BigIsZero(arc.sweep_angle)
        /\ BigMagLess(arc.sweep_angle, TauF64)
        /\ BigIsZero(BigDiff(arc.sweep_angle, BigDiff(ea, sa)))
        /\ BigPositive(arc.sweep_angle) <=> BigLess(sa, ma) /\ BigLess(ma, ea)
        /\ BigNegative(arc.sweep_angle) <=> BigLess(ea, ma) /\ BigLess(ma, sa)

\* the sweep through mid, too small for Arc2D::new
FlatSweepBelowTolerance ==
    LET x == made.args[1][1]
        m == made.args[2][2]
        s == compute_sweep_through_mid_f64(FlatAngle(x, m), FlatAngle(0, m), FlatAngle(-x, m))
    IN  /\ result.status = "ZeroSweepAngle"
        /\ s.hi = 0 /\ s.lo < ANGLE_TOLERANCE_F64

C24_WitnessFlat ==
    /\ ThroughMidCallFlat
    /\ made.args[2][2] = 2^15
    /\ result.status = "ZeroSweepAngle"

\* arc_to_nurbs was called on a sweep with 0 < |sweep| <= TAU
NurbsCall == made # NoMade /\ result.op = "arc_to_nurbs"

\* ceil(|sweep| / (PI / 2)): the least n with n quarter turns >= |sweep|
CeilQuarterTurns(sweep) ==
    CHOOSE n \in 0..4 : /\ n * QuarterTurn >= Abs(sweep)
                        /\ \A k \in 0..(n - 1) : k * QuarterTurn < Abs(sweep)

\* C25: for every sweep with 0 < |sweep| <= TAU, arc_to_nurbs uses
\* n = ceil(|sweep| / (PI / 2)) segments, 1 <= n <= 4, of
\* |segment_angle| = |sweep| / n <= PI / 2 (the weight cos(|segment_angle| / 2)
\* is positive); it emits 2n + 1 control points of weights 1, w, 1, ..., 1
\* and a non-decreasing knot vector of 2n + 4 entries, three 0s, each i / n
\* with 0 < i < n twice, and three 1s; the first control point is at angle 0
\* and the last at n * segment_angle = sweep.
C25_NurbsShape ==
    NurbsCall =>
        LET sweep == made.args[1]
            nurbs == made.val
            n == nurbs.n_segments
            cp == nurbs.control_points
            knots == nurbs.knots
        IN  /\ n = CeilQuarterTurns(sweep)
            /\ 1 <= n /\ n <= 4
            /\ n * Abs(nurbs.segment_angle) = NurbsScale * Abs(sweep)
            /\ Abs(nurbs.segment_angle) <= NurbsScale * QuarterTurn
            /\ Len(cp) = 2 * n + 1
            /\ \A j \in 1..Len(cp) :
                  IF j % 2 = 1 THEN cp[j].weight_angle = 0
                  ELSE /\ 2 * cp[j].weight_angle = Abs(nurbs.segment_angle)
                       /\ cp[j].weight_angle < NurbsScale * QuarterTurn
            /\ Len(knots) = 2 * n + 4
            /\ \A j \in 1..(Len(knots) - 1) : knots[j] <= knots[j + 1]
            /\ \A j \in 1..3 : knots[j] = 0 /\ knots[2 * n + 1 + j] = NurbsScale
            /\ \A i \in 1..(n - 1) :
                  /\ n * knots[2 * i + 2] = NurbsScale * i
                  /\ n * knots[2 * i + 3] = NurbsScale * i
            /\ cp[1].angle = 0
            /\ cp[Len(cp)].angle = n * nurbs.segment_angle
            /\ cp[Len(cp)].angle = NurbsScale * sweep
            /\ \A j \in 1..Len(cp) : 2 * cp[j].angle = (j - 1) * nurbs.segment_angle

\* a clockwise sweep just over a half turn: three segments, seven control
\* points and ten knots
C25_Witness ==
    /\ NurbsCall
    /\ made.args[1] = -(PI + 1)
    /\ made.val.n_segments = 3
    /\ Len(made.val.control_points) = 7
    /\ made.val.knots = <<0, 0, 0, 8, 8, 16, 16, 24, 24, 24>>

\* a spline constructor was called on these points and this degree
SplineCall ==
    /\ made # NoMade
    /\ result.op \in {"BSpline2D::from_control_points", "BSpline2D::interpolate"}

SplineMade == SplineCall /\ result.status = "Ok"

\* the error a spline constructor returned
SplineRefused(min, degree, got) ==
    /\ result.status = "InsufficientControlPoints"
    /\ made.val = InsufficientControlPoints(min, degree, got).val

\* from_control_points returns InsufficientControlPoints { min: degree + 1,
\* degree, got: len } exactly when len < degree + 1; interpolate returns it
\* with min: 2 on fewer than 2 points and otherwise succeeds with the
\* degree min(degree, len - 1); a spline built has at least degree + 1
\* control points, the ones given
SplineConstructors ==
    SplineCall =>
        LET points == made.args[1]
            degree == made.args[2]
            len == Len(points)
        IN  /\ result.op = "BSpline2D::from_control_points" =>
                  /\ result.status \in {"Ok", "InsufficientControlPoints"}
                  /\ result.status = "InsufficientControlPoints" <=> len < degree + 1
                  /\ len < degree + 1 => SplineRefused(degree + 1, degree, len)
                  /\ SplineMade => made.val.degree = degree
            /\ result.op = "BSpline2D::interpolate" =>
                  /\ len < 2 => SplineRefused(2, degree, len)
                  /\ len >= 2 => /\ SplineMade
                                 /\ made.val.degree = Min(degree, len - 1)
            /\ SplineMade => /\ made.val.kind = "BSpline"
                             /\ made.val.points = points
                             /\ Len(made.val.points) >= made.val.degree + 1

\* C26: every BSpline2D built by from_control_points or interpolate has
\* degree >= 1 and at least degree + 1 control points: from_control_points
\* returns InsufficientControlPoints { min: degree + 1, degree, got: len }
\* exactly when len < degree + 1, a requested degree of 0 is rejected, and
\* interpolate returns InsufficientControlPoints { min: 2 } on fewer than 2
\* points and otherwise succeeds with the degree min(degree, len - 1).
C26_SplineDegree ==
    /\ SplineConstructors
    /\ SplineMade => made.val.degree >= 1
    /\ SplineCall /\ made.args[2] = 0 => result.status # "Ok"

\* from_control_points on one point with the degree 0 returns a spline of
\* the degree 0
C26_Witness ==
    /\ SplineMade
    /\ result.op = "BSpline2D::from_control_points"
    /\ Len(made.args[1]) = 1
    /\ made.args[2] = 0
    /\ made.val.degree = 0


-----------------------------------------------------------------------------
(* Winding direction.                                                      *)

\* is_ccw() has just answered for the loop made.orig
WindingCall == result.op = "is_ccw"
WindingLoop == made.orig.curves
WindingOfWholeLoop == WindingCall /\ made.orig.kind = "WholeLoop"
WindingOfRectangle == WindingCall /\ made.orig.kind = "Loop"

\* the sum of (x1 - x0) * (y1 + y0) over the lines themselves, in whole numbers
RECURSIVE Shoelace(_)
Shoelace(cs) ==
    IF cs = <<>> THEN 0
    ELSE (cs[1].end[1] - cs[1].start[1]) * (cs[1].end[2] + cs[1].start[2])
         + Shoelace(Tail(cs))

\* the turn from the line a into the line b: > 0 to the left
Turn(a, b) ==
    (a.end[1] - a.start[1]) * (b.end[2] - b.start[2])
    - (a.end[2] - a.start[2]) * (b.end[1] - b.start[1])

\* a convex polygon whose vertices run counter-clockwise, or clockwise
TurnsLeft(cs) ==
    Len(cs) >= 3 /\ \A i \in 1..Len(cs) : Turn(cs[i], cs[(i % Len(cs)) + 1]) > 0
TurnsRight(cs) ==
    Len(cs) >= 3 /\ \A i \in 1..Len(cs) : Turn(cs[i], cs[(i % Len(cs)) + 1]) < 0

\* the sampled f64 sum less the sum over the lines, exactly
SamplingError(cs) == FpSum(Loop2D_sampled_area(cs), FpOf(-Shoelace(cs)))

\* |x| <= 2^k
FpWithin(x, k) == x.m = <<>> \/ NatBits(x.m) + x.e <= k

\* what holds of every answer of is_ccw, of a loop of zero area as well
WindingOfAnyArea ==
    WindingCall =>
        /\ made.val.is_ccw = FpNegative(Loop2D_sampled_area(WindingLoop))
        /\ TurnsLeft(WindingLoop) => made.val.is_ccw
        /\ TurnsRight(WindingLoop) => ~made.val.is_ccw
        /\ Shoelace(WindingLoop) # 0 =>
              /\ made.val.is_ccw = (Shoelace(WindingLoop) < 0)
              /\ Loop2D_is_ccw(Loop2D_reversed(WindingLoop)) = ~made.val.is_ccw
        /\ (WindingOfRectangle /\ made.args[2] > 0 /\ made.args[3] > 0) =>
              made.val.is_ccw

C27_WitnessZeroArea ==
    /\ WindingOfWholeLoop
    /\ made.args = <<(<<(<<1, 2>>), (<<4, 6>>)>>)>>
    /\ Shoelace(WindingLoop) = 0
    /\ made.val.is_ccw


-----------------------------------------------------------------------------
(* Validity under the calls on a loop.                                     *)

\* validate(HEAL_TOLERANCE) succeeds on the curves
PassesValidate(cs) == Loop2D_validate(cs, HEAL_TOLERANCE).status = "Ok"

\* a step that made a loop with a validating constructor
MadeValidated ==
    result'.op \in {"Loop2D::new", "from_closed_curve"} /\ result'.status = "Ok"

\* a step that transformed the loop held
Transformed == result'.op \in {"heal_gaps", "reverse", "reversed"}

\* what holds of the loops C28 speaks of whose points are on the lattice
ValidityKeptOnLattice ==
    /\ MadeValidated => loop'.curves # <<>> /\ PassesValidate(loop'.curves)
    /\ (result'.op = "from_closed_curve" /\ result'.status = "Ok") =>
           Loop2D_new(loop'.curves).status = "Ok"
    /\ (Transformed /\ PassesValidate(loop.curves)) =>
           /\ loop'.curves # <<>>
           /\ Len(loop'.curves) = Len(loop.curves)
           /\ PassesValidate(loop'.curves)
    /\ result'.op = "heal_gaps" =>
           \A i \in 0..(Len(loop.curves) - 1) :
               JunctionGap2(loop'.curves, i) <= JunctionGap2(loop.curves, i)

\* HEAL_TOLERANCE and 2^-50 more
HealToleranceAndRounding == FpAdd(HEAL_TOLERANCE_FP, Fp(FALSE, <<1>>, -50))

C28_WitnessReversedArc ==
    /\ result.op = "validate(f64)"
    /\ made.revs = 1
    /\ Loop2D_validate_fp(made.orig.curves, HEAL_TOLERANCE_FP) = "Ok"
    /\ result.status = "OpenLoop"


-----------------------------------------------------------------------------
(* Healing a loop of lines.                                                *)

AllLines(cs) == \A k \in 1..Len(cs) : cs[k].kind = "Line"

\* n >= 2 lines whose junction gaps are all <= tol, and tol >= POINT_TOLERANCE
LinesWithin(cs, tol) ==
    /\ Len(cs) >= 2
    /\ AllLines(cs)
    /\ tol >= POINT_TOLERANCE
    /\ \A i \in 0..(Len(cs) - 1) : JunctionGap2(cs, i) <= tol * tol

\* the gap of junction i is in (POINT_TOLERANCE, tol]
JunctionInRange(cs, i, tol) ==
    /\ JunctionGap2(cs, i) > POINT_TOLERANCE * POINT_TOLERANCE
    /\ JunctionGap2(cs, i) <= tol * tol

\* C29: on a loop of n >= 2 lines with all junction gaps <= tol
\* (tol >= POINT_TOLERANCE), after heal_gaps(tol) every junction gap is 0 or
\* is what it was and <= POINT_TOLERANCE, so validate(POINT_TOLERANCE)
\* succeeds; on any loop of lines healing a junction changes the gap of no
\* other junction and moves no end point; and a second heal_gaps(tol)
\* returns 0 and changes nothing.
C29_HealedLines ==
    [][/\ (result'.op = "heal_gaps" /\ LinesWithin(loop.curves, result'.tol)) =>
              /\ \A i \in 0..(Len(loop.curves) - 1) :
                     \/ JunctionGap2(loop'.curves, i) = 0
                     \/ /\ JunctionGap2(loop'.curves, i) = JunctionGap2(loop.curves, i)
                        /\ JunctionGap2(loop.curves, i) <= POINT_TOLERANCE * POINT_TOLERANCE
              /\ Loop2D_validate(loop'.curves, POINT_TOLERANCE).status = "Ok"
              /\ Loop2D_heal_gaps(loop'.curves, result'.tol)
                     = [curves |-> loop'.curves, healed |-> 0]
       /\ (result'.op = "heal_gaps" /\ AllLines(loop.curves) /\ Len(loop.curves) >= 2) =>
              \A i \in 0..(Len(loop.curves) - 1) :
                  /\ CurveEnd(loop'.curves[i + 1]) = CurveEnd(loop.curves[i + 1])
                  /\ JunctionGap2(loop'.curves, i)
                         = IF JunctionInRange(loop.curves, i, result'.tol) THEN 0
                           ELSE JunctionGap2(loop.curves, i)
       /\ (/\ result.op = "heal_gaps"
           /\ LinesWithin(result.before, result.tol)
           /\ result'.op = "heal_gaps"
           /\ result'.tol = result.tol) =>
              result'.healed = 0 /\ loop' = loop]_vars

\* heal_gaps(HEAL_TOLERANCE) closed the one open junction of a loop of two
\* lines, which did not pass validate(POINT_TOLERANCE) and now does
C29_Witness ==
    /\ result.op = "heal_gaps"
    /\ result.tol = HEAL_TOLERANCE
    /\ LinesWithin(result.before, result.tol)
    /\ result.healed = 1
    /\ Loop2D_validate(result.before, POINT_TOLERANCE).status = "OpenLoop"
    /\ Loop2D_validate(loop.curves, POINT_TOLERANCE).status = "Ok"
    /\ \A i \in 0..1 : JunctionGap2(loop.curves, i) = 0


-----------------------------------------------------------------------------
(* The builder's start and current positions.                              *)

LastOf(seq) == seq[Len(seq)]

\* a call that returned the builder: move_to, or a drawing call that succeeded
Chained == builder /\ builder'
Drew == Chained /\ result'.op # "move_to"

\* the drawing call op succeeded
DrewBy(op) == Drew /\ result'.op = op

\* C30: start_position() is the argument of the first move_to: a move_to
\* sets it when none was issued before, and no later move_to and no drawing
\* call changes it; a move_to sets current_position() and leaves the curves;
\* a drawing call that succeeds appends one curve and sets
\* current_position() to the end point it was asked to reach; close() draws
\* its closing line to start_position().
C30_StartFixed ==
    [][/\ (builder /\ ~builder') => result'.op # "move_to"
       /\ (builder /\ move_count = 0) => start_pos = None
       /\ (Chained /\ result'.op = "move_to") =>
              \A pt \in MovePts :
                  move_to(pt) =>
                      /\ current_pos' = pt
                      /\ start_pos' = IF move_count = 0 THEN pt ELSE start_pos
                      /\ curves' = curves
       /\ Drew =>
              /\ start_pos' = start_pos
              /\ Len(curves') = Len(curves) + 1
              /\ SubSeq(curves', 1, Len(curves)) = curves
       /\ DrewBy("line_to") =>
              \A pt \in Pts :
                  line_to(pt) => current_pos' = pt /\ CurveEnd(LastOf(curves')) = pt
       /\ DrewBy("horizontal") =>
              \A dx \in Offsets :
                  horizontal(dx) => current_pos' = <<current_pos[1] + dx, current_pos[2]>>
       /\ DrewBy("vertical") =>
              \A dy \in Offsets :
                  vertical(dy) => current_pos' = <<current_pos[1], current_pos[2] + dy>>
       /\ DrewBy("line_by") =>
              \A d \in LineBys :
                  line_by(d[1], d[2]) =>
                      current_pos' = <<current_pos[1] + d[1], current_pos[2] + d[2]>>
       /\ DrewBy("arc_to") =>
              \A a \in ArcTos, center \in ArcCenters :
                  arc_to(a[1], center, a[2]) => current_pos' = a[1]
       /\ DrewBy("arc_through") =>
              \A a \in ArcThroughs : arc_through(a[1], a[2]) => current_pos' = a[2]
       /\ DrewBy("arc_by_angle") => current_pos' = CurveEnd(LastOf(curves'))
       /\ DrewBy("quadratic_to") =>
              \A control \in Controls, end \in SplineEnds :
                  quadratic_to(control, end) => current_pos' = end
       /\ DrewBy("cubic_to") =>
              \A cp \in CubicControls, end \in SplineEnds :
                  cubic_to(cp[1], cp[2], end) => current_pos' = end
       /\ DrewBy("spline_through") =>
              \A points \in SplinePoints :
                  spline_through(points) => current_pos' = LastOf(points)
       /\ (result'.op = "close" /\ Len(result'.before) > Len(curves)) =>
              /\ Len(result'.before) = Len(curves) + 1
              /\ LastOf(result'.before) = Line2D_new_unchecked(current_pos, start_pos)]_vars

\* after move_to(A), move_to(B) and a line from B, close() drew its closing
\* line to A, which is not where the first curve starts
C30_Witness ==
    /\ result.op = "close"
    /\ result.moves = 2
    /\ Len(result.before) = 2
    /\ CurveStart(result.before[1]) = <<6000, 0>>
    /\ CurveEnd(result.before[2]) = <<0, 0>>
    /\ result.status = "OpenLoop"

=============================================================================
